---- MODULE Spec2Model ----
(***************************************************************************)
(* State-machine model of CursorHandler (src/api/providers/cursor.ts):      *)
(* the token lifecycle (validateAndRefreshToken / refreshToken), the        *)
(* envelope codec and the createMessage receive loop.                       *)
(* With it, ChatSummarizer (src/core/chat-summarizer/index.ts).             *)
(*                                                                          *)
(* JavaScript runs each piece of synchronous code to completion, so one     *)
(* action is the code between two awaits (or yields) of one async call.     *)
(***************************************************************************)
EXTENDS Integers, Sequences, FiniteSets, TLC

(* ------------------------------------------------------------------ *)
(* Bounds of the model                                                 *)
(* ------------------------------------------------------------------ *)
NumCalls == 2          \* createMessage invocations on the one handler
MaxFrames == 2         \* envelopes in one response body
MaxPayload == 257      \* longest payload handed to the codec on its own
MaxMessages == 5       \* messages in a conversation handed to the summarizer

(* ------------------------------------------------------------------ *)
(* Program constants                                                   *)
(* ------------------------------------------------------------------ *)
TOKEN_REFRESH_INTERVAL == 3300000
TOKEN_EXPIRY == 3600000

Calls == 1..NumCalls

\* Date.now() values the clock may take: just below and at every threshold of
\* a token issued at 0 and of one issued at TOKEN_REFRESH_INTERVAL.
Thresholds == {TOKEN_REFRESH_INTERVAL, TOKEN_EXPIRY}
Instants ==
    { base + t - d : base \in {0, TOKEN_REFRESH_INTERVAL}, t \in Thresholds, d \in {0, 1} }

(* ------------------------------------------------------------------ *)
(* Errors: `new Error(message)`.  A message is a list of literal pieces *)
(* (template text of the source) followed by a dynamic text.            *)
(* ------------------------------------------------------------------ *)
NoError == [thrown |-> FALSE, pre |-> <<>>, text |-> <<>>]
Err(lit) == [thrown |-> TRUE, pre |-> <<lit>>, text |-> <<>>]
\* new Error(s) for a string s computed at run time
ErrMsg(s) == [thrown |-> TRUE, pre |-> <<>>, text |-> s]

ErrNotSignedIn == Err("Cursor access token is required. Please sign in with your Cursor account.")
ErrExpired == Err("Access token has expired. Please sign in again.")
ErrNoRefreshToken == Err("No refresh token available")
ErrUnauthorized == Err("Authentication failed. Please sign in again.")
ErrForbiddenRefresh == Err("Refresh token is invalid or expired. Please sign in again.")
ErrRefreshStatus == Err("Token refresh failed: 500 Unknown error")
ErrRefreshNoToken == Err("Invalid response from refresh endpoint")
ErrFetchFailed == Err("TypeError: fetch failed")
ErrBadJson == Err("SyntaxError: Unexpected token in JSON")
ErrCallback == Err("onTokensRefreshed rejected")

(* ------------------------------------------------------------------ *)
(* Texts.  A JavaScript string is the sequence of its code points; the  *)
(* texts below are ASCII, so they are also their own UTF-8 bytes.       *)
(* ------------------------------------------------------------------ *)
TxtTextA == <<123, 34, 116, 101, 120, 116, 34, 58, 34, 97, 34, 125>>   \* {"text":"a"}
TxtTextB == <<123, 34, 116, 101, 120, 116, 34, 58, 34, 98, 34, 125>>   \* {"text":"b"}
TxtTextNum == <<123, 34, 116, 101, 120, 116, 34, 58, 49, 125>>         \* {"text":1}
TxtNoText == <<123, 34, 120, 34, 58, 49, 125>>                         \* {"x":1}
TxtEmptyObj == <<123, 125>>                                            \* {}
TxtSpacedObj == <<123, 32, 125>>                                       \* { }
TxtNull == <<110, 117, 108, 108>>                                      \* null
TxtErrMsg == <<123, 34, 101, 114, 114, 111, 114, 34, 58, 123, 34, 109, 101, 115, 115, 97, 103, 101, 34, 58, 34, 98, 97, 100, 34, 125, 125>>   \* {"error":{"message":"bad"}}
TxtErrCodeMsg == <<123, 34, 101, 114, 114, 111, 114, 34, 58, 123, 34, 99, 111, 100, 101, 34, 58, 34, 69, 49, 34, 44, 34, 109, 101, 115, 115, 97, 103, 101, 34, 58, 34, 98, 97, 100, 34, 125, 125>>   \* {"error":{"code":"E1","message":"bad"}}
TxtErrCode == <<123, 34, 101, 114, 114, 111, 114, 34, 58, 123, 34, 99, 111, 100, 101, 34, 58, 34, 69, 49, 34, 125, 125>>   \* {"error":{"code":"E1"}}
TxtErrBraces == <<123, 34, 101, 114, 114, 111, 114, 34, 58, 123, 34, 109, 101, 115, 115, 97, 103, 101, 34, 58, 34, 123, 125, 34, 125, 125>>   \* {"error":{"message":"{}"}}
TxtGarbage == <<111, 111, 112, 115>>                                   \* oops
StrA == <<97>>                \* a
StrB == <<98>>                \* b
StrBad == <<98, 97, 100>>     \* bad
StrE1 == <<69, 49>>           \* E1
StrBraces == <<123, 125>>     \* {}
StrColon == <<58, 32>>        \* ": "
Bom == <<239, 187, 191>>      \* the UTF-8 byte order mark

(* ------------------------------------------------------------------ *)
(* JavaScript values, as far as the handler looks at them               *)
(* ------------------------------------------------------------------ *)
Undefined == [t |-> "undefined", s |-> <<>>]
JsStr(s) == [t |-> "string", s |-> s]
JsNum(n) == [t |-> "number", s |-> <<n>>]
\* a parsed JSON document: what kind of value it is, its `text` member, whether its
\* `error` member is an object, and that object's `code` and `message`
JsDoc(kind, text, hasError, code, message) ==
    [kind |-> kind, text |-> text, hasError |-> hasError, code |-> code, message |-> message]
NoDoc == JsDoc("none", Undefined, FALSE, Undefined, Undefined)

\* JSON.parse on the texts of the model; every other text is a SyntaxError.
JsonTable ==
    { <<TxtTextA, JsDoc("object", JsStr(StrA), FALSE, Undefined, Undefined)>>,
      <<TxtTextB, JsDoc("object", JsStr(StrB), FALSE, Undefined, Undefined)>>,
      <<TxtTextNum, JsDoc("object", JsNum(1), FALSE, Undefined, Undefined)>>,
      <<TxtNoText, JsDoc("object", Undefined, FALSE, Undefined, Undefined)>>,
      <<TxtEmptyObj, JsDoc("object", Undefined, FALSE, Undefined, Undefined)>>,
      <<TxtSpacedObj, JsDoc("object", Undefined, FALSE, Undefined, Undefined)>>,
      <<TxtNull, JsDoc("null", Undefined, FALSE, Undefined, Undefined)>>,
      <<TxtErrMsg, JsDoc("object", Undefined, TRUE, Undefined, JsStr(StrBad))>>,
      <<TxtErrCodeMsg, JsDoc("object", Undefined, TRUE, JsStr(StrE1), JsStr(StrBad))>>,
      <<TxtErrCode, JsDoc("object", Undefined, TRUE, JsStr(StrE1), Undefined)>>,
      <<TxtErrBraces, JsDoc("object", Undefined, TRUE, Undefined, JsStr(StrBraces))>> }

JsonParse(text) ==
    IF \E e \in JsonTable : e[1] = text
    THEN [ok |-> TRUE, doc |-> (CHOOSE e \in JsonTable : e[1] = text)[2]]
    ELSE [ok |-> FALSE, doc |-> NoDoc]

\* JavaScript truthiness of a member value
Truthy(v) == \/ v.t = "string" /\ Len(v.s) > 0
             \/ v.t = "number" /\ v.s # <<0>>

DropFirst(s, n) == SubSeq(s, n + 1, Len(s))

\* new TextDecoder().decode(bytes): the byte order mark is dropped, an ASCII
\* byte is its own code point and a byte that starts no valid sequence
\* becomes U+FFFD.
TextDecode(bytes) ==
    LET body == IF Len(bytes) >= 3 /\ SubSeq(bytes, 1, 3) = Bom THEN DropFirst(bytes, 3) ELSE bytes
    IN [i \in 1..Len(body) |-> IF body[i] < 128 THEN body[i] ELSE 65533]

(* ------------------------------------------------------------------ *)
(* Envelope codec, lines 122-211                                       *)
(* ------------------------------------------------------------------ *)
NORMAL == 0
END_STREAM == 2
ERROR == 4
HeaderLength == 5

\* Lengths are JavaScript numbers and reach 2^32, beyond the model checker's
\* integers: a length is kept as two limbs, hi * 65536 + lo with lo < 65536.
Limb == 256 * 256
Big(n) == [hi |-> n \div Limb, lo |-> n % Limb]
BigPlus(a, n) == [hi |-> a.hi + (a.lo + n) \div Limb, lo |-> (a.lo + n) % Limb]
BigGreater(a, b) == a.hi > b.hi \/ (a.hi = b.hi /\ a.lo > b.lo)

\* 4294967296 = 2^32
MAX_MESSAGE_SIZE == [hi |-> 65536, lo |-> 0]

ErrTooLarge == Err("Message size exceeds maximum allowed size")
ErrTooShort == Err("Invalid data length: too short")
ErrPromised == Err("Protocol error: promised bytes in enveloped message")

\* DataView.getUint32(0, false) on bytes 1..4 of the buffer
GetUint32(buffer) ==
    [hi |-> buffer[2] * 256 + buffer[3], lo |-> buffer[4] * 256 + buffer[5]]

\* (a faulty variant: the length is written little-endian)
SetUint32LittleEndian(n) ==
    <<n.lo % 256, n.lo \div 256, n.hi % 256, (n.hi % Limb) \div 256>>

\* DataView.setUint32(1, n, false): the low 32 bits of n, big-endian
SetUint32(n) ==
    <<(n.hi % Limb) \div 256, n.hi % 256, n.lo \div 256, n.lo % 256>>

\* (a faulty variant: an envelope counts as complete only when a byte of the
\* next one has arrived)
validateEnvelopeStrict(buffer) ==
    IF Len(buffer) < HeaderLength
    THEN [isComplete |-> FALSE, totalLength |-> Big(0), messageLength |-> Big(0), error |-> NoError]
    ELSE [isComplete |-> BigGreater(Big(Len(buffer)), BigPlus(GetUint32(buffer), HeaderLength)),
          totalLength |-> BigPlus(GetUint32(buffer), HeaderLength),
          messageLength |-> GetUint32(buffer), error |-> NoError]

\* validateEnvelope, lines 122-160
validateEnvelope(buffer) ==
    IF Len(buffer) < HeaderLength
    THEN [isComplete |-> FALSE, totalLength |-> Big(0), messageLength |-> Big(0), error |-> NoError]
    ELSE LET messageLength == GetUint32(buffer)
             totalLength == BigPlus(messageLength, HeaderLength)
         IN IF BigGreater(messageLength, MAX_MESSAGE_SIZE)
            THEN [isComplete |-> FALSE, totalLength |-> totalLength,
                  messageLength |-> messageLength, error |-> ErrTooLarge]
            ELSE [isComplete |-> ~BigGreater(totalLength, Big(Len(buffer))),
                  totalLength |-> totalLength,
                  messageLength |-> messageLength, error |-> NoError]

\* (a faulty variant: a buffer longer than the envelope is accepted)
decodeEnvelopeLenient(buffer) ==
    IF Len(buffer) < HeaderLength
    THEN [flag |-> 0, data |-> <<>>, error |-> ErrTooShort]
    ELSE IF BigGreater(BigPlus(GetUint32(buffer), HeaderLength), Big(Len(buffer)))
         THEN [flag |-> 0, data |-> <<>>, error |-> ErrPromised]
         ELSE [flag |-> buffer[1],
               data |-> SubSeq(buffer, HeaderLength + 1, HeaderLength + GetUint32(buffer).lo),
               error |-> NoError]

\* decodeEnvelope, lines 162-187
decodeEnvelope(buffer) ==
    IF Len(buffer) < HeaderLength
    THEN [flag |-> 0, data |-> <<>>, error |-> ErrTooShort]
    ELSE LET messageLength == GetUint32(buffer)
             totalLength == BigPlus(messageLength, HeaderLength)
         IN IF Big(Len(buffer)) # totalLength
            THEN [flag |-> 0, data |-> <<>>, error |-> ErrPromised]
            ELSE IF BigGreater(messageLength, MAX_MESSAGE_SIZE)
            THEN [flag |-> 0, data |-> <<>>, error |-> ErrTooLarge]
            ELSE [flag |-> buffer[1], data |-> DropFirst(buffer, HeaderLength),
                  error |-> NoError]

\* lines 201-208 of encodeEnvelope for a payload of `length` bytes: the size
\* check, and the five header bytes of the result
encodeHeader(length, flag) ==
    IF BigGreater(length, MAX_MESSAGE_SIZE)
    THEN [bytes |-> <<>>, error |-> ErrTooLarge]
    ELSE [bytes |-> <<flag>> \o SetUint32(length), error |-> NoError]

\* encodeEnvelope, lines 189-211, on bytes (a Uint8Array or an encoded text)
encodeEnvelope(dataBytes, flag) ==
    IF encodeHeader(Big(Len(dataBytes)), flag).error.thrown
    THEN [bytes |-> <<>>, error |-> encodeHeader(Big(Len(dataBytes)), flag).error]
    ELSE [bytes |-> encodeHeader(Big(Len(dataBytes)), flag).bytes \o dataBytes,
          error |-> NoError]

(* ------------------------------------------------------------------ *)
(* Payload interpretation, lines 233-280                               *)
(* ------------------------------------------------------------------ *)
\* parseErrorMessage, lines 233-249.  Reading `.error` of null throws inside the
\* try, and the catch returns the decoded text.
\* (lines 237-248, given the decoded text and the outcome of JSON.parse on it)
parseErrorJson(data, errorText, ok, errorJson) ==
    IF ~ok \/ errorJson.kind = "null" THEN TextDecode(data)
    ELSE IF errorJson.hasError /\ Truthy(errorJson.message)
         THEN errorJson.message.s
    ELSE IF errorJson.hasError /\ Truthy(errorJson.code) /\ Truthy(errorJson.message)
         THEN errorJson.code.s \o StrColon \o errorJson.message.s
    ELSE errorText

parseErrorMessage(data) ==
    parseErrorJson(data, TextDecode(data),
                   JsonParse(TextDecode(data)).ok, JsonParse(TextDecode(data)).doc)

ErrServerStatus == Err("Server returned status code 500")

\* handleErrorResponse, lines 251-268, on the text of a non-2xx response
\* (a faulty variant: the parsed message is never used)
handleErrorJsonDefault(ok, errorJson) == ErrServerStatus

\* (lines 256-267, given the outcome of JSON.parse on the text)
handleErrorJson(ok, errorJson) ==
    IF ~ok \/ errorJson.kind = "null" THEN ErrServerStatus
    ELSE IF errorJson.hasError /\ Truthy(errorJson.message)
         THEN ErrMsg(errorJson.message.s)
    ELSE IF errorJson.hasError /\ Truthy(errorJson.code) /\ Truthy(errorJson.message)
         THEN ErrMsg(errorJson.code.s \o StrColon \o errorJson.message.s)
    ELSE ErrServerStatus

handleErrorResponse(errorText) ==
    handleErrorJson(JsonParse(errorText).ok, JsonParse(errorText).doc)

\* parseMessageContent, lines 270-280: the content, or null
\* (lines 273-276, given the outcome of JSON.parse on the text)
contentOf(ok, content) ==
    IF ok /\ content.kind # "null" /\ content.text.t = "string"
    THEN [isNull |-> FALSE, text |-> content.text.s]
    ELSE [isNull |-> TRUE, text |-> <<>>]

parseMessageContent(data) == contentOf(JsonParse(data).ok, JsonParse(data).doc)

(* ------------------------------------------------------------------ *)
(* The frame loop of createMessage, lines 395-461                      *)
(* ------------------------------------------------------------------ *)
\* (a faulty variant: the catch rethrows the error as it is)
CatchProcessingBare(e) == e

\* the catch of lines 457-460: `new Error("Error processing message: " + error)`
CatchProcessing(e) ==
    [thrown |-> TRUE, pre |-> <<"Error processing message: Error: ">> \o e.pre, text |-> e.text]

\* (a faulty variant: an end-of-stream payload is always an error)
IsEmptyObjectMarkerNever(errorMessage) == FALSE

\* line 414: `errorMessage !== "{}"`
IsEmptyObjectMarker(errorMessage) == errorMessage = StrBraces

\* What the loop does with a Data frame whose text holds no string `text`
\* (lines 449-451): it logs and goes on to the next frame.
OnNoText == [out |-> "continue", text |-> <<>>, error |-> NoError]

\* The body of the inner try, lines 406-460, on one complete envelope:
\*   "continue" (next frame), "yield" (a text event), "return", "throw"
Throw(e) == [out |-> "throw", text |-> <<>>, error |-> CatchProcessing(e)]

\* (a faulty variant: the text of a Data frame is never yielded)
OnContentSkipped(content) == OnNoText

\* lines 440-455: what the loop does with the parsed content of a Data frame
OnContent(content) ==
    IF ~content.isNull
    THEN [out |-> "yield", text |-> content.text, error |-> NoError]
    ELSE OnNoText

\* (a faulty variant: the end marker is noted and the loop goes on)
OnEndMarkerContinue == [out |-> "continue", text |-> <<>>, error |-> NoError]

\* lines 420-421: `sawEndMarker = true; return` leaves the generator
OnEndMarker == [out |-> "return", text |-> <<>>, error |-> NoError]

\* lines 408-456, on a decoded envelope
OnDecoded(d) ==
    IF d.error.thrown THEN Throw(d.error)
    ELSE IF d.flag = END_STREAM
         THEN IF Len(d.data) > 0 /\ ~IsEmptyObjectMarker(parseErrorMessage(d.data))
              THEN Throw(ErrMsg(parseErrorMessage(d.data)))
              ELSE OnEndMarker
    ELSE IF d.flag = ERROR
         THEN Throw(ErrMsg(parseErrorMessage(d.data)))
    ELSE IF d.flag = NORMAL
         THEN IF Len(TextDecode(d.data)) = 0
              THEN [out |-> "continue", text |-> <<>>, error |-> NoError]
              ELSE OnContent(parseMessageContent(TextDecode(d.data)))
    ELSE [out |-> "continue", text |-> <<>>, error |-> NoError]

HandleEnvelope(completeMessage) == OnDecoded(decodeEnvelope(completeMessage))

\* The while loop of lines 395-461 from its head, until the generator yields,
\* returns, throws, or needs more bytes ("more").  `seen` collects the
\* envelopes decoded on the way.
RECURSIVE ProcessBuffer(_, _)
\* (a faulty variant: `break` instead of `continue`, the loop waits for the
\* next chunk before it looks at the rest of the buffer)
AfterEnvelopeBreak(r, rest, seen) ==
    IF r.out = "continue"
    THEN [buffer |-> rest, out |-> "more", text |-> <<>>, error |-> NoError, seen |-> seen]
    ELSE [buffer |-> rest, out |-> r.out, text |-> r.text, error |-> r.error, seen |-> seen]

\* after one envelope was handled with result r: the next turn of the loop,
\* or the way the generator leaves it
AfterEnvelope(r, rest, seen) ==
    IF r.out = "continue"
    THEN ProcessBuffer(rest, seen)
    ELSE [buffer |-> rest, out |-> r.out, text |-> r.text, error |-> r.error, seen |-> seen]

\* (a faulty variant: the buffer is advanced one byte too far)
TakeEnvelopeSkipping(buffer, totalLength, seen) ==
    AfterEnvelope(HandleEnvelope(SubSeq(buffer, 1, totalLength)),
                  DropFirst(buffer, totalLength + 1),
                  Append(seen, SubSeq(buffer, 1, totalLength)))

\* lines 403-404: the complete message is cut off the buffer
TakeEnvelope(buffer, totalLength, seen) ==
    AfterEnvelope(HandleEnvelope(SubSeq(buffer, 1, totalLength)),
                  DropFirst(buffer, totalLength),
                  Append(seen, SubSeq(buffer, 1, totalLength)))

\* lines 396-400, on the result v of validateEnvelope
OnValidated(buffer, v, seen) ==
    IF v.error.thrown
    THEN [buffer |-> buffer, out |-> "throw", text |-> <<>>, error |-> v.error, seen |-> seen]
    ELSE IF ~v.isComplete
    THEN [buffer |-> buffer, out |-> "more", text |-> <<>>, error |-> NoError, seen |-> seen]
    ELSE TakeEnvelope(buffer, v.totalLength.hi * Limb + v.totalLength.lo, seen)

ProcessBuffer(buffer, seen) ==
    IF Len(buffer) < HeaderLength
    THEN [buffer |-> buffer, out |-> "more", text |-> <<>>, error |-> NoError, seen |-> seen]
    ELSE OnValidated(buffer, validateEnvelope(buffer), seen)

VARIABLES
    now,                \* Date.now()
    cursorAccessToken,  \* options.cursorAccessToken: 0 = absent, k > 0 = k-th token
    cursorRefreshToken, \* options.cursorRefreshToken is set
    onTokensRefreshed,  \* a persistence callback was given to the constructor
    lastTokenRefresh,   \* this.lastTokenRefresh
    refreshPromise,     \* this.refreshPromise: 0 = null, k = the k-th refresh promise
    refreshOps,         \* the refresh promises created so far, in order
    persisted,          \* arguments of every onTokensRefreshed invocation
    pc,                 \* where each createMessage call stands
    err,                \* the error a failed call threw
    awaiting,           \* the refresh promise a call awaits (0 = none)
    callAge,            \* history: timeSinceLastRefresh computed by the call
    callEpoch,          \* history: refresh promises already settled when the call checked
    requests,           \* streaming requests issued: <<call, bearer token, body bytes>>
    response,           \* history: what the server answered to the call's request
    codec,              \* the envelope codec applied on its own: input and result
    reader,             \* the response stream reader of a call: "none", "locked", "released"
    wire,               \* response bytes the network has not delivered yet
    buffer,             \* the local `buffer` of the receive loop
    sawEndMarker,       \* the local `sawEndMarker`
    pendingAtEnd,       \* history: what `buffer` held when the byte stream ended
    leftover,           \* history: the call ended with received or unread bytes unprocessed
    events,             \* the text events the call has yielded, in order
    envelopes,          \* history: the complete envelopes the loop has extracted
    summarizer          \* a ChatSummarizer and the summarize call made on it

tokenState == <<cursorAccessToken, cursorRefreshToken, onTokensRefreshed,
                lastTokenRefresh, refreshPromise, refreshOps, persisted>>
streamState == <<reader, wire, buffer, sawEndMarker, pendingAtEnd, leftover, events, envelopes>>

vars == <<now, cursorAccessToken, cursorRefreshToken, onTokensRefreshed,
          lastTokenRefresh, refreshPromise, refreshOps, persisted,
          pc, err, awaiting, callAge, callEpoch, requests, response, codec,
          reader, wire, buffer, sawEndMarker, pendingAtEnd, leftover, events, envelopes,
          summarizer>>

Settled(ops) == { i \in 1..Len(ops) : ops[i].state = "settled" }

(* ------------------------------------------------------------------ *)
(* validateAndRefreshToken, lines 107-120                              *)
(* ------------------------------------------------------------------ *)
\* (a faulty variant: the expiry test is strict)
IsExpiredStrict(age) == age > TOKEN_EXPIRY

\* line 111
IsExpired(age) == age >= TOKEN_EXPIRY

\* (a faulty variant: the refresh test is strict)
NeedsRefreshStrict(age) == age > TOKEN_REFRESH_INTERVAL

\* line 116
NeedsRefresh(age) == age >= TOKEN_REFRESH_INTERVAL

\* (a faulty variant: the access token is not checked)
TokenPresentAlways(tok) == TRUE

\* line 284
TokenPresent(tok) == tok # 0

\* (a faulty variant: a pending refresh is not joined)
InFlightNever(rp) == FALSE

\* refreshToken, line 48: an operation is in flight, join it
InFlight(rp) == rp # 0

\* (a faulty variant: the marker survives the operation)
FinallyMarkerKept(rp) == rp

\* the `finally` of the refresh operation, line 100
FinallyMarker(rp) == 0

\* (a faulty variant: the refresh token is not checked)
HasRefreshTokenAlways(rt) == TRUE

\* refreshToken, line 44: `!this.options.cursorRefreshToken`
HasRefreshToken(rt) == rt

\* What the synchronous part of createMessage up to its first await decides.
\*   "notSignedIn", "expired", "noRefreshToken": the call throws
\*   "fresh": nothing to do;  "join": await the pending refresh;
\*   "start": create a refresh promise (and call fetch)
Decide(tok, age, hasRefresh, rp) ==
    IF ~TokenPresent(tok) THEN "notSignedIn"
    ELSE IF IsExpired(age) THEN "expired"
    ELSE IF ~NeedsRefresh(age) THEN "fresh"
    ELSE IF ~HasRefreshToken(hasRefresh) THEN "noRefreshToken"
    ELSE IF InFlight(rp) THEN "join"
    ELSE "start"

\* no ChatSummarizer has been constructed
SummarizerNew ==
    [pc |-> "new", maxTokens |-> 0, input |-> <<>>, messages |-> <<>>, whole |-> TRUE,
     tail |-> <<>>, depth |-> 0, calls |-> 0, result |-> <<>>]

\* what a call knows of the response before fetch resolves
NoResponse == [kind |-> "none", text |-> <<>>, frames |-> <<>>]

\* the codec has not been applied
CodecIdle == [op |-> "idle", flag |-> 0, payload |-> <<>>, bytes |-> <<>>,
              out |-> [flag |-> 0, data |-> <<>>, error |-> NoError]]

Init ==
    /\ now = 0
    /\ cursorAccessToken \in {0, 1}
    /\ cursorRefreshToken \in BOOLEAN
    /\ onTokensRefreshed \in BOOLEAN
    /\ lastTokenRefresh = now
    /\ refreshPromise = 0
    /\ refreshOps = <<>>
    /\ persisted = <<>>
    /\ pc = [c \in Calls |-> "idle"]
    /\ err = [c \in Calls |-> NoError]
    /\ awaiting = [c \in Calls |-> 0]
    /\ callAge = [c \in Calls |-> -1]
    /\ callEpoch = [c \in Calls |-> 0]
    /\ requests = <<>>
    /\ response = [c \in Calls |-> NoResponse]
    /\ codec = CodecIdle
    /\ reader = [c \in Calls |-> "none"]
    /\ wire = [c \in Calls |-> <<>>]
    /\ buffer = [c \in Calls |-> <<>>]
    /\ sawEndMarker = [c \in Calls |-> FALSE]
    /\ pendingAtEnd = [c \in Calls |-> "open"]
    /\ leftover = [c \in Calls |-> FALSE]
    /\ events = [c \in Calls |-> <<>>]
    /\ envelopes = [c \in Calls |-> <<>>]
    /\ summarizer = SummarizerNew

\* Time passes.  The clock is read only at lines 91 and 108, so it is left
\* alone once no call can start and no refresh is pending.
Tick ==
    /\ refreshPromise # 0 \/ \E c \in Calls : pc[c] = "idle"
    /\ \E t \in Instants : t > now /\ now' = t
    /\ UNCHANGED <<codec, summarizer, response, tokenState, streamState, pc, err, awaiting, callAge, callEpoch, requests>>

\* createMessage, lines 283-288, with validateAndRefreshToken (107-120) and the
\* synchronous part of refreshToken (43-65): everything up to the first await.
CreateMessage(c) ==
    /\ pc[c] = "idle"
    /\ LET age == now - lastTokenRefresh
           d == Decide(cursorAccessToken, age, cursorRefreshToken, refreshPromise)
       IN /\ callAge' = [callAge EXCEPT ![c] = IF d = "notSignedIn" THEN -1 ELSE age]
          /\ callEpoch' = [callEpoch EXCEPT ![c] = Cardinality(Settled(refreshOps))]
          /\ CASE d = "notSignedIn" ->
                    /\ pc' = [pc EXCEPT ![c] = "failed"]
                    /\ err' = [err EXCEPT ![c] = ErrNotSignedIn]
                    /\ UNCHANGED <<awaiting, refreshPromise, refreshOps>>
               [] d = "expired" ->
                    /\ pc' = [pc EXCEPT ![c] = "failed"]
                    /\ err' = [err EXCEPT ![c] = ErrExpired]
                    /\ UNCHANGED <<awaiting, refreshPromise, refreshOps>>
               [] d = "noRefreshToken" ->
                    /\ pc' = [pc EXCEPT ![c] = "failed"]
                    /\ err' = [err EXCEPT ![c] = ErrNoRefreshToken]
                    /\ UNCHANGED <<awaiting, refreshPromise, refreshOps>>
               [] d = "fresh" ->
                    /\ pc' = [pc EXCEPT ![c] = "awaitToken"]
                    /\ UNCHANGED <<err, awaiting, refreshPromise, refreshOps>>
               [] d = "join" ->
                    /\ pc' = [pc EXCEPT ![c] = "awaitToken"]
                    /\ awaiting' = [awaiting EXCEPT ![c] = refreshPromise]
                    /\ UNCHANGED <<err, refreshPromise, refreshOps>>
               [] d = "start" ->
                    /\ pc' = [pc EXCEPT ![c] = "awaitToken"]
                    /\ refreshOps' = Append(refreshOps,
                            [state |-> "fetch", resp |-> "none", result |-> NoError, by |-> c])
                    /\ refreshPromise' = Len(refreshOps) + 1
                    /\ awaiting' = [awaiting EXCEPT ![c] = Len(refreshOps) + 1]
                    /\ UNCHANGED err
    /\ UNCHANGED <<codec, summarizer, response, now, cursorAccessToken, cursorRefreshToken, onTokensRefreshed,
                   lastTokenRefresh, persisted, requests, streamState>>

\* The refresh promise settles: try/catch/finally of lines 96-101.
Settle(ops, id, result) ==
    /\ refreshOps' = [ops EXCEPT ![id] = [@ EXCEPT !.state = "settled", !.result = result]]
    /\ refreshPromise' = FinallyMarker(refreshPromise)

\* history: the answer the identity provider gave to the refresh request
Answered(ops, id, resp) == [ops EXCEPT ![id].resp = resp]

\* (a faulty variant: the status is not looked at, every non-2xx answer gets
\* the general message)
RefreshFailureGeneral(resp) ==
    CASE resp = "network" -> ErrFetchFailed
      [] resp \in {"401", "403", "500"} -> ErrRefreshStatus
      [] resp = "badJson" -> ErrBadJson
      [] resp = "noToken" -> ErrRefreshNoToken

\* The error a refresh ends with when the answer is no token (lines 55-87):
\* fetch's own rejection, the message of the status (lines 72-80), the
\* rejection of response.json() (line 83), or the message of line 86.
RefreshFailure(resp) ==
    CASE resp = "network" -> ErrFetchFailed
      [] resp = "401" -> ErrUnauthorized
      [] resp = "403" -> ErrForbiddenRefresh
      [] resp = "500" -> ErrRefreshStatus
      [] resp = "badJson" -> ErrBadJson
      [] resp = "noToken" -> ErrRefreshNoToken

\* (a faulty variant: the time of the refresh is not recorded)
RefreshedAtKept(clock, last) == last

\* (a faulty variant: the time since the last refresh is stored, not the time)
RefreshedAtAge(clock, last) == clock - last

\* line 91: `this.lastTokenRefresh = Date.now()`
RefreshedAt(clock, last) == clock

\* The identity provider answers the refresh request (lines 55-95).
\* resp: "network" (fetch rejects), a non-2xx status, "badJson" (2xx, body is
\* no JSON), "noToken" (2xx without access_token), "token" (2xx with one).
RefreshResponse(resp) ==
    /\ refreshPromise # 0
    /\ refreshOps[refreshPromise].state = "fetch"
    /\ LET id == refreshPromise IN
       IF resp # "token"
       THEN /\ Settle(Answered(refreshOps, id, resp), id, RefreshFailure(resp))
            /\ UNCHANGED <<cursorAccessToken, lastTokenRefresh, persisted>>
       ELSE /\ cursorAccessToken' = id + 1
            /\ lastTokenRefresh' = RefreshedAt(now, lastTokenRefresh)
            /\ IF onTokensRefreshed
               THEN /\ persisted' = Append(persisted, <<id + 1, cursorRefreshToken>>)
                    /\ refreshOps' = [Answered(refreshOps, id, resp) EXCEPT ![id].state = "callback"]
                    /\ UNCHANGED refreshPromise
               ELSE /\ Settle(Answered(refreshOps, id, resp), id, NoError)
                    /\ UNCHANGED persisted
    /\ UNCHANGED <<codec, summarizer, response, now, cursorRefreshToken, onTokensRefreshed,
                   pc, err, awaiting, callAge, callEpoch, requests, streamState>>

RefreshResponses == {"network", "401", "403", "500", "badJson", "noToken", "token"}

\* The persistence callback's promise settles (line 94).
CallbackDone(ok) ==
    /\ refreshPromise # 0
    /\ refreshOps[refreshPromise].state = "callback"
    /\ Settle(refreshOps, refreshPromise, IF ok THEN NoError ELSE ErrCallback)
    /\ UNCHANGED <<codec, summarizer, response, now, cursorAccessToken, cursorRefreshToken, onTokensRefreshed,
                   lastTokenRefresh, persisted,
                   pc, err, awaiting, callAge, callEpoch, requests, streamState>>

\* (a faulty variant: a failed refresh is swallowed)
ValidateResultSwallowed(outcome) == NoError

\* What `await this.refreshToken()` (line 118) and `await
\* this.validateAndRefreshToken()` (line 288) hand on: the awaited promise's
\* outcome, a rejection rethrown as it is.
ValidateResult(outcome) == outcome

\* JSON.stringify(requestBody) (lines 295-322) as UTF-8 bytes; the c-th call
\* asks the query "c":  {"query":"c"}
RequestJson(c) == <<123, 34, 113, 117, 101, 114, 121, 34, 58, 34, 48 + c, 34, 125>>

\* (a faulty variant: the end marker is not appended)
FullRequestBodyBare(requestEnvelope, endMarker) == requestEnvelope

\* lines 326-328: the two envelopes are copied into one array
FullRequestBody(requestEnvelope, endMarker) == requestEnvelope \o endMarker

\* lines 322-328: the request envelope and the end marker
BuildRequest(c) ==
    FullRequestBody(encodeEnvelope(RequestJson(c), NORMAL).bytes,
                    encodeEnvelope(<<>>, END_STREAM).bytes)

\* createMessage resumes after `await this.validateAndRefreshToken()`
\* (line 288) and runs to `await fetch(...)` (line 338).
ResumeAfterValidate(c) ==
    /\ pc[c] = "awaitToken"
    /\ awaiting[c] # 0 => refreshOps[awaiting[c]].state = "settled"
    /\ LET outcome == IF awaiting[c] = 0 THEN NoError
                      ELSE ValidateResult(refreshOps[awaiting[c]].result)
       IN IF outcome = NoError
          THEN /\ requests' = Append(requests, <<c, cursorAccessToken, BuildRequest(c)>>)
               /\ pc' = [pc EXCEPT ![c] = "awaitResponse"]
               /\ UNCHANGED err
          ELSE /\ pc' = [pc EXCEPT ![c] = "failed"]
               /\ err' = [err EXCEPT ![c] = outcome]
               /\ UNCHANGED requests
    /\ UNCHANGED <<codec, summarizer, response, now, tokenState, awaiting, callAge, callEpoch, streamState>>

(* ------------------------------------------------------------------ *)
(* The streaming response, lines 357-466                               *)
(* ------------------------------------------------------------------ *)
\* The envelopes a server sends in the model: <<flag, payload bytes>>
ServerFrames ==
    { <<NORMAL, <<>>>>, <<NORMAL, TxtTextA>>, <<NORMAL, TxtTextB>>, <<NORMAL, TxtEmptyObj>>,
      <<END_STREAM, <<>>>>, <<END_STREAM, TxtEmptyObj>>, <<END_STREAM, TxtGarbage>>,
      <<ERROR, TxtErrMsg>>, <<ERROR, TxtErrCodeMsg>> }

RECURSIVE BodyOf(_)
BodyOf(frames) ==
    IF frames = <<>> THEN <<>>
    ELSE encodeEnvelope(Head(frames)[2], Head(frames)[1]).bytes \o BodyOf(Tail(frames))

\* Data frames that carry a string `text`, and the responses made of up to
\* MaxFrames of them followed by one empty EndStream frame
DataTextFrames == { <<NORMAL, TxtTextA>>, <<NORMAL, TxtTextB>> }
HappySeqs ==
    { Append(fs, <<END_STREAM, <<>>>>) :
        fs \in UNION { [1..n -> DataTextFrames] : n \in 0..MaxFrames } }

FrameSeqs == UNION { [1..n -> ServerFrames] : n \in 0..MaxFrames } \cup HappySeqs
Bodies == { BodyOf(fs) : fs \in FrameSeqs }

\* Texts of non-2xx responses
ErrorTexts == {TxtErrMsg, TxtErrCodeMsg, TxtErrCode, TxtGarbage}

ErrNoReader == Err("Failed to get response reader")
ErrReadFailed == Err("TypeError: network error")

\* (a faulty variant: a request that failed in transport is sent again)
FetchRejectedRetry(reqs, c) ==
    [pc |-> "awaitResponse",
     requests |-> Append(reqs, <<c, cursorAccessToken, BuildRequest(c)>>)]

\* line 338: `await fetch(...)` stands in no try block and no loop, so its
\* rejection leaves the call at once and nothing is sent again
FetchRejected(reqs, c) == [pc |-> "failed", requests |-> reqs]

\* `await fetch(...)` of line 338 rejects.
RequestFails(c) ==
    /\ pc[c] = "awaitResponse"
    /\ pc' = [pc EXCEPT ![c] = FetchRejected(requests, c).pc]
    /\ requests' = FetchRejected(requests, c).requests
    /\ err' = [err EXCEPT ![c] = ErrFetchFailed]
    /\ UNCHANGED <<codec, summarizer, response, now, tokenState, awaiting, callAge, callEpoch, streamState>>

\* A non-2xx response: lines 363-365.
ErrorResponse(c) ==
    /\ pc[c] = "awaitResponse"
    /\ \E errorText \in ErrorTexts :
          /\ err' = [err EXCEPT ![c] = handleErrorResponse(errorText)]
          /\ response' = [response EXCEPT ![c] = [kind |-> "error", text |-> errorText, frames |-> <<>>]]
    /\ pc' = [pc EXCEPT ![c] = "failed"]
    /\ UNCHANGED <<codec, summarizer, now, tokenState, awaiting, callAge, callEpoch, requests, streamState>>

\* A 2xx response without a body: lines 367-370.
ResponseWithoutBody(c) ==
    /\ pc[c] = "awaitResponse"
    /\ pc' = [pc EXCEPT ![c] = "failed"]
    /\ err' = [err EXCEPT ![c] = ErrNoReader]
    /\ response' = [response EXCEPT ![c] = [kind |-> "nobody", text |-> <<>>, frames |-> <<>>]]
    /\ UNCHANGED <<codec, summarizer, now, tokenState, awaiting, callAge, callEpoch, requests, streamState>>

\* A 2xx response with a body: the reader is acquired and the loop awaits
\* its first read (lines 367-378).
StreamResponseIn(c, seqs) ==
    /\ pc[c] = "awaitResponse"
    /\ \E fs \in seqs :
          /\ wire' = [wire EXCEPT ![c] = BodyOf(fs)]
          /\ response' = [response EXCEPT ![c] = [kind |-> "stream", text |-> <<>>, frames |-> fs]]
    /\ reader' = [reader EXCEPT ![c] = "locked"]
    /\ pc' = [pc EXCEPT ![c] = "reading"]
    /\ UNCHANGED <<codec, summarizer, now, tokenState, err, awaiting, callAge, callEpoch, requests,
                   buffer, sawEndMarker, pendingAtEnd, leftover, events, envelopes>>

StreamResponse(c) == StreamResponseIn(c, FrameSeqs)

\* The responses to two calls that are under way together: the server
\* answers the c-th call with one text of its own ("a" for the first call,
\* "b" for the others) and ends the stream or reports an error.
TextFor(c) == IF c = 1 THEN TxtTextA ELSE TxtTextB
PairSeqs(c) ==
    { << <<NORMAL, TextFor(c)>>, <<END_STREAM, <<>>>> >>,
      << <<NORMAL, TextFor(c)>>, <<ERROR, TxtGarbage>> >> }
StreamResponsePair(c) == StreamResponseIn(c, PairSeqs(c))

\* (a faulty variant: the reader is not released)
ReleaseLockKept(state) == state

\* The `finally` of lines 463-465.
ReleaseLock(state) == "released"

\* (a faulty variant: the buffer is a field of the handler, one for all calls)
BufferOfHandler(c) == 1

\* line 373: `let buffer` is a local of the generator, so every call has a
\* buffer of its own; the buffer the c-th call works on
BufferOf(c) == c

\* The generator runs the frame loop on `buf` until it suspends or ends.
\* When it ends, its locals and the unread rest of the response are gone.
RunLoop(c, buf, rest) ==
    \E r \in {ProcessBuffer(buf, <<>>)} :
    /\ envelopes' = [envelopes EXCEPT ![c] = @ \o r.seen]
    /\ CASE r.out = "more" ->
              /\ pc' = [pc EXCEPT ![c] = "reading"]
              /\ buffer' = [buffer EXCEPT ![BufferOf(c)] = r.buffer]
              /\ wire' = [wire EXCEPT ![c] = rest]
              /\ UNCHANGED <<err, events, sawEndMarker, reader, leftover>>
         [] r.out = "yield" ->
              /\ pc' = [pc EXCEPT ![c] = "yielded"]
              /\ buffer' = [buffer EXCEPT ![BufferOf(c)] = r.buffer]
              /\ wire' = [wire EXCEPT ![c] = rest]
              /\ events' = [events EXCEPT ![c] = Append(@, r.text)]
              /\ UNCHANGED <<err, sawEndMarker, reader, leftover>>
         [] r.out = "return" ->
              /\ pc' = [pc EXCEPT ![c] = "done"]
              /\ buffer' = [buffer EXCEPT ![BufferOf(c)] = <<>>]
              /\ wire' = [wire EXCEPT ![c] = <<>>]
              /\ sawEndMarker' = [sawEndMarker EXCEPT ![c] = TRUE]
              /\ reader' = [reader EXCEPT ![c] = ReleaseLock(@)]
              /\ leftover' = [leftover EXCEPT ![c] = r.buffer \o rest # <<>>]
              /\ UNCHANGED <<err, events>>
         [] r.out = "throw" ->
              /\ pc' = [pc EXCEPT ![c] = "failed"]
              /\ buffer' = [buffer EXCEPT ![BufferOf(c)] = <<>>]
              /\ wire' = [wire EXCEPT ![c] = <<>>]
              /\ err' = [err EXCEPT ![c] = r.error]
              /\ reader' = [reader EXCEPT ![c] = ReleaseLock(@)]
              /\ leftover' = [leftover EXCEPT ![c] = r.buffer \o rest # <<>>]
              /\ UNCHANGED <<events, sawEndMarker>>

\* reader.read() delivers the next chunk (lines 378-461): any number of the
\* bytes still on the wire.
Read(c) ==
    /\ pc[c] = "reading"
    /\ \E k \in 0..Len(wire[c]) :
          RunLoop(c, buffer[BufferOf(c)] \o SubSeq(wire[c], 1, k), DropFirst(wire[c], k))
    /\ UNCHANGED <<codec, summarizer, response, now, tokenState, awaiting, callAge, callEpoch, requests, pendingAtEnd>>

\* What the call does when reader.read() reports done (lines 379-382, 463-466):
\* it leaves the loop, releases the reader and returns.
OnStreamDone(saw) == [pc |-> "done", error |-> NoError]

\* What an abandoned buffer held: nothing, part of a header, or a header and
\* part of its payload.
Pending(buf) ==
    IF Len(buf) = 0 THEN "nothing"
    ELSE IF Len(buf) < HeaderLength THEN "header" ELSE "payload"

\* reader.read() reports done: the peer closed the stream, whatever was
\* still to come is never delivered.
StreamEnds(c) ==
    /\ pc[c] = "reading"
    /\ pendingAtEnd' = [pendingAtEnd EXCEPT ![c] = Pending(buffer[BufferOf(c)])]
    /\ wire' = [wire EXCEPT ![c] = <<>>]
    /\ buffer' = [buffer EXCEPT ![BufferOf(c)] = <<>>]
    /\ pc' = [pc EXCEPT ![c] = OnStreamDone(sawEndMarker[c]).pc]
    /\ err' = [err EXCEPT ![c] = OnStreamDone(sawEndMarker[c]).error]
    /\ reader' = [reader EXCEPT ![c] = ReleaseLock(@)]
    /\ UNCHANGED <<codec, summarizer, response, now, tokenState, awaiting, callAge, callEpoch, requests,
                   sawEndMarker, leftover, events, envelopes>>

\* reader.read() rejects (line 378); the error leaves through the finally.
ReadFails(c) ==
    /\ pc[c] = "reading"
    /\ pc' = [pc EXCEPT ![c] = "failed"]
    /\ err' = [err EXCEPT ![c] = ErrReadFailed]
    /\ wire' = [wire EXCEPT ![c] = <<>>]
    /\ buffer' = [buffer EXCEPT ![BufferOf(c)] = <<>>]
    /\ reader' = [reader EXCEPT ![c] = ReleaseLock(@)]
    /\ UNCHANGED <<codec, summarizer, response, now, tokenState, awaiting, callAge, callEpoch, requests,
                   sawEndMarker, pendingAtEnd, leftover, events, envelopes>>

\* The consumer asks for the next event: the generator resumes after the
\* yield of line 445 and goes back to the head of the frame loop.
Resume(c) ==
    /\ pc[c] = "yielded"
    /\ RunLoop(c, buffer[BufferOf(c)], wire[c])
    /\ UNCHANGED <<codec, summarizer, response, now, tokenState, awaiting, callAge, callEpoch, requests, pendingAtEnd>>

\* The consumer stops early: return() on the suspended generator runs the
\* finally of lines 463-465.
ConsumerReturn(c) ==
    /\ pc[c] = "yielded"
    /\ pc' = [pc EXCEPT ![c] = "returned"]
    /\ wire' = [wire EXCEPT ![c] = <<>>]
    /\ buffer' = [buffer EXCEPT ![BufferOf(c)] = <<>>]
    /\ reader' = [reader EXCEPT ![c] = ReleaseLock(@)]
    /\ leftover' = [leftover EXCEPT ![c] = buffer[BufferOf(c)] \o wire[c] # <<>>]
    /\ UNCHANGED <<codec, summarizer, response, now, tokenState, err, awaiting, callAge, callEpoch, requests,
                   sawEndMarker, pendingAtEnd, events, envelopes>>

(* ------------------------------------------------------------------ *)
(* The codec on its own, lines 122-211                                 *)
(* ------------------------------------------------------------------ *)
Flags == {NORMAL, END_STREAM, ERROR}
PayloadLengths == {0, 1, 255, 256, MaxPayload}
Payloads == { [i \in 1..n |-> b] : n \in PayloadLengths, b \in {0, 255} }
\* lengths a header can declare: 0, 1, 257, 65536 and 2^32 - 1
DeclaredLengths ==
    { Big(0), Big(1), Big(257), [hi |-> 1, lo |-> 0], [hi |-> 65535, lo |-> 65535] }
Untouched == <<now, tokenState, streamState, pc, err, awaiting, callAge, callEpoch,
               requests, response, summarizer>>

\* encodeEnvelope(payload, flag) on a Uint8Array
Encode(flag, payload) ==
    /\ codec.op = "idle"
    /\ codec' = [op |-> "encoded", flag |-> flag, payload |-> payload,
                 bytes |-> encodeEnvelope(payload, flag).bytes,
                 out |-> [flag |-> 0, data |-> <<>>,
                          error |-> encodeEnvelope(payload, flag).error]]
    /\ UNCHANGED Untouched

\* decodeEnvelope on the bytes encodeEnvelope returned
Decode ==
    /\ codec.op = "encoded"
    /\ ~codec.out.error.thrown
    /\ codec' = [codec EXCEPT !.op = "decoded", !.out = decodeEnvelope(codec.bytes)]
    /\ UNCHANGED Untouched

\* Buffers handed to decodeEnvelope: a header that declares a length,
\* followed by fewer, exactly as many, or more bytes than it declares; and
\* buffers too short to hold a header.
HaveLengths == {0, 1, 2, MaxPayload - 1, MaxPayload, MaxPayload + 1}
DecodeInputs ==
    { <<flag>> \o SetUint32(declared) \o [i \in 1..have |-> 7] :
        flag \in Flags, declared \in DeclaredLengths, have \in HaveLengths }
    \cup { [i \in 1..n |-> 4] : n \in 0..(HeaderLength - 1) }

\* decodeEnvelope on such a buffer
DecodeBuffer(bytes) ==
    /\ codec.op = "idle"
    /\ codec' = [op |-> "decodedBuffer", flag |-> 0, payload |-> <<>>,
                 bytes |-> bytes, out |-> decodeEnvelope(bytes)]
    /\ UNCHANGED Untouched

\* payload sizes around the limit of the length field: 0, 2^32 - 1, 2^32
\* and 2^32 + 1 bytes
SizedLengths ==
    { Big(0), [hi |-> 65535, lo |-> 65535], [hi |-> 65536, lo |-> 0], [hi |-> 65536, lo |-> 1] }

\* encodeEnvelope on a Uint8Array of `length` bytes, too long to be written
\* out: of the result only the header is kept
EncodeSized(flag, length) ==
    /\ codec.op = "idle"
    /\ codec' = [op |-> "sized", flag |-> flag, payload |-> <<>>,
                 bytes |-> encodeHeader(length, flag).bytes,
                 out |-> [length |-> length, error |-> encodeHeader(length, flag).error]]
    /\ UNCHANGED Untouched

\* validateEnvelope on a buffer that holds a header declaring `declared`
\* payload bytes and the first `have` of them
Validate(flag, declared, have) ==
    /\ codec.op = "idle"
    /\ codec' = [op |-> "validated", flag |-> flag, payload |-> <<>>,
                 bytes |-> <<flag>> \o SetUint32(declared) \o [i \in 1..have |-> 0],
                 out |-> validateEnvelope(<<flag>> \o SetUint32(declared)
                                           \o [i \in 1..have |-> 0])]
    /\ UNCHANGED Untouched

(* ------------------------------------------------------------------ *)
(* ChatSummarizer, core/chat-summarizer/index.ts                       *)
(* ------------------------------------------------------------------ *)
minSplit == 4
maxDepth == 3

\* Messages of the model: a role and a content that is a string or an array
\* of blocks; a block has a type and, when it is a text block, a text.
TextAbcd == <<97, 98, 99, 100>>
TextAbcde == <<97, 98, 99, 100, 101>>
TextBlock(text) == [type |-> "text", text |-> text]
ToolUseBlock == [type |-> "tool_use", text |-> <<>>]
JsArray(blocks) == [t |-> "array", s |-> blocks]
Message(role, content) == [role |-> role, content |-> content]
InputMessages ==
    { Message("user", JsStr(<<>>)),
      Message("user", JsStr(TextAbcd)),
      Message("assistant", JsStr(TextAbcde)),
      Message("user", JsArray(<<TextBlock(TextAbcd), ToolUseBlock>>)) }
Conversations == UNION { [1..n -> InputMessages] : n \in 0..MaxMessages }

\* values of the maxTokens argument of the constructor
MaxTokensChoices == {1, 2}

\* texts the model streams back as a summary: "I" and "I asked y"
SummaryTexts == { <<73>>, <<73, 32, 97, 115, 107, 101, 100, 32, 121>> }

\* lines 34-39: the characters of the text blocks of an array content
RECURSIVE contentSum(_)
contentSum(blocks) ==
    IF blocks = <<>> THEN 0
    ELSE (IF Head(blocks).type = "text" THEN Len(Head(blocks).text) ELSE 0)
         + contentSum(Tail(blocks))

\* lines 30-43: the estimate, counted in quarters of a token (one per
\* character), which keeps the division by 4 of lines 36 and 42 exact
RECURSIVE totalTokens(_)
totalTokens(messages) ==
    IF messages = <<>> THEN 0
    ELSE (IF Head(messages).content.t = "array"
          THEN contentSum(Head(messages).content.s)
          ELSE Len(Head(messages).content.s))
         + totalTokens(Tail(messages))

\* an async function returns a promise of its value
JsBool(b) == [t |-> "boolean", value |-> b]
JsPromise(v) == [t |-> "promise", value |-> v]

\* ToBoolean, as `!` and `if` apply it: a boolean is itself, an object (a
\* promise is one) is true
ToBoolean(v) == IF v.t = "boolean" THEN v.value ELSE TRUE

\* `await p`
Await(p) == IF p.t = "promise" THEN p.value ELSE p

\* too_big, lines 28-45: `async`, so the caller gets a promise of the boolean
too_big(messages, maxTokens) == JsPromise(JsBool(totalTokens(messages) > 4 * maxTokens))

\* summarize_all, lines 72-123, up to the await on the model's stream: the
\* conversation is formatted and handed to models.createMessage
summarize_all(s, messages) ==
    [s EXCEPT !.pc = "model", !.messages = messages, !.calls = @ + 1]

\* lines 131-136: the summary as one assistant message
SummaryMessage(summaryText) == Message("assistant", JsStr(summaryText))

\* summarize_real, lines 47-61, up to its first await
summarize_real(s, messages, depth) ==
    IF Len(messages) <= minSplit \/ depth > maxDepth
    THEN [summarize_all(s, messages) EXCEPT !.whole = TRUE, !.tail = <<>>, !.depth = depth]
    ELSE [summarize_all(s, SubSeq(messages, 1, Len(messages) \div 2))
            EXCEPT !.whole = FALSE, !.depth = depth,
                   !.tail = SubSeq(messages, Len(messages) \div 2 + 1, Len(messages))]

\* summarize_real, lines 63-69: the summarized head and the tail
Combined(s, combined) ==
    IF ToBoolean(Await(too_big(combined, s.maxTokens)))
    THEN summarize_real(s, combined, s.depth + 1)
    ELSE [s EXCEPT !.pc = "returned", !.result = combined]

\* summarize, lines 21-26
summarize(s, messages) ==
    IF ~ToBoolean(too_big(messages, s.maxTokens))
    THEN [s EXCEPT !.pc = "returned", !.result = messages]
    ELSE summarize_real(s, messages, 0)

\* new ChatSummarizer(models, maxTokens), lines 16-19
NewChatSummarizer(maxTokens) ==
    /\ summarizer.pc = "new"
    /\ summarizer' = [summarizer EXCEPT !.pc = "idle", !.maxTokens = maxTokens]
    /\ UNCHANGED <<codec, now, tokenState, streamState, pc, err, awaiting, callAge, callEpoch,
                   requests, response>>

\* summarize(messages) is called and runs to its first await or its return.
Summarize(messages) ==
    /\ summarizer.pc = "idle"
    /\ summarizer' = summarize([summarizer EXCEPT !.input = messages], messages)
    /\ UNCHANGED <<codec, now, tokenState, streamState, pc, err, awaiting, callAge, callEpoch,
                   requests, response>>

\* The model's stream ends (lines 124-136); summarize_all returns the
\* summary message and its caller goes on (lines 52, 61-69).
ModelAnswers(summaryText) ==
    /\ summarizer.pc = "model"
    /\ summarizer' =
          IF summarizer.whole
          THEN [summarizer EXCEPT !.pc = "returned", !.result = <<SummaryMessage(summaryText)>>]
          ELSE Combined(summarizer, <<SummaryMessage(summaryText)>> \o summarizer.tail)
    /\ UNCHANGED <<codec, now, tokenState, streamState, pc, err, awaiting, callAge, callEpoch,
                   requests, response>>

\* The model's stream throws (line 124): nothing catches it, summarize rejects.
ModelFails ==
    /\ summarizer.pc = "model"
    /\ summarizer' = [summarizer EXCEPT !.pc = "failed"]
    /\ UNCHANGED <<codec, now, tokenState, streamState, pc, err, awaiting, callAge, callEpoch,
                   requests, response>>

(* ------------------------------------------------------------------ *)
(* Specifications                                                      *)
(* ------------------------------------------------------------------ *)
\* Spec: the token lifecycle under NumCalls concurrent createMessage calls,
\* each followed until it has issued its streaming request.
Next ==
    \/ Tick
    \/ \E c \in Calls : CreateMessage(c)
    \/ \E r \in RefreshResponses : RefreshResponse(r)
    \/ \E ok \in BOOLEAN : CallbackDone(ok)
    \/ \E c \in Calls : ResumeAfterValidate(c)

Spec == Init /\ [][Next]_vars

(* ------------------------------------------------------------------ *)
(* Properties of the token lifecycle (checked under Spec)              *)
(* ------------------------------------------------------------------ *)
\* The call has run its token check (the access token was present).
Checked(c) == pc[c] # "idle" /\ callAge[c] >= 0
Fresh(age) == age < 3300000
RefreshDue(age) == 3300000 <= age /\ age < 3600000
Expired(age) == age >= 3600000

Unsettled == { i \in 1..Len(refreshOps) : refreshOps[i].state # "settled" }

\* The call has come back from its token check with what the refresh
\* promise `id` settled to.
SharesOutcome(c, id) ==
    /\ pc[c] = "failed" => refreshOps[id].state = "settled" /\ err[c] = refreshOps[id].result
                           /\ err[c].thrown
    /\ pc[c] = "awaitResponse" => refreshOps[id].state = "settled"
                                  /\ refreshOps[id].result = NoError

\* The refresh call that serves the callers which found the token RefreshDue
\* after `callEpoch` refreshes had completed: the next one, and only that one.
JoinsTheOneRefresh(c) ==
    /\ awaiting[c] = callEpoch[c] + 1
    /\ awaiting[c] <= Len(refreshOps)
    /\ SharesOutcome(c, awaiting[c])

\* C1 as stated: callers that invoke ensureFresh() while the token is
\* RefreshDue, between the same two refresh completions, are served by
\* exactly one refresh network call and all end with its outcome.
C1_AsStated ==
    /\ Cardinality(Unsettled) <= 1
    /\ \A c \in Calls : Checked(c) /\ RefreshDue(callAge[c]) => JoinsTheOneRefresh(c)

\* C1 amended: the same, on a handler that holds a refresh token; one refresh
\* call is outstanding at most, every such caller awaits the one call made
\* after the completions it saw, and ends with that call's outcome.
C1_SingleFlight ==
    /\ Cardinality(Unsettled) <= 1
    /\ cursorRefreshToken =>
         \A c \in Calls : Checked(c) /\ RefreshDue(callAge[c]) => JoinsTheOneRefresh(c)

\* Two callers were served by one refresh call and both failed with its error.
C1_Witness ==
    \E c1, c2 \in Calls :
        /\ c1 # c2 /\ RefreshDue(callAge[c1]) /\ RefreshDue(callAge[c2])
        /\ awaiting[c1] # 0 /\ awaiting[c1] = awaiting[c2]
        /\ pc[c1] = "failed" /\ pc[c2] = "failed" /\ err[c1] = err[c2]
        /\ Len(refreshOps) = 1

NoOp(c) == awaiting[c] = 0 /\ pc[c] \in {"awaitToken", "awaitResponse"}
TakesPartInOneRefresh(c) ==
    /\ awaiting[c] \in 1..Len(refreshOps)
    /\ Cardinality({ i \in 1..Len(refreshOps) : refreshOps[i].by = c }) <= 1
    /\ \A i \in 1..Len(refreshOps) : refreshOps[i].by = c => awaiting[c] = i
FailsExpired(c) == pc[c] = "failed" /\ err[c] = ErrExpired /\ awaiting[c] = 0

\* C2 as stated: ensureFresh() is a no-op iff age < 3,300,000, performs or
\* joins exactly one refresh iff 3,300,000 <= age < 3,600,000, and fails
\* Expired iff age >= 3,600,000.
C2_AsStated ==
    \A c \in Calls : Checked(c) =>
        /\ NoOp(c) <=> Fresh(callAge[c])
        /\ TakesPartInOneRefresh(c) <=> RefreshDue(callAge[c])
        /\ FailsExpired(c) <=> Expired(callAge[c])

\* C2 amended: as stated for age < 3,300,000 and age >= 3,600,000; in between
\* the call performs or joins exactly one refresh iff the handler holds a
\* refresh token, and otherwise fails "No refresh token available" without one.
C2_TokenMath ==
    \A c \in Calls : Checked(c) =>
        /\ NoOp(c) <=> Fresh(callAge[c])
        /\ TakesPartInOneRefresh(c) <=> (RefreshDue(callAge[c]) /\ cursorRefreshToken)
        /\ (pc[c] = "failed" /\ err[c] = ErrNoRefreshToken /\ awaiting[c] = 0)
              <=> (RefreshDue(callAge[c]) /\ ~cursorRefreshToken)
        /\ FailsExpired(c) <=> Expired(callAge[c])

\* Calls have met every threshold from both sides.
C2_Witness ==
    \E c1, c2 \in Calls :
        /\ callAge[c1] = 3300000 /\ awaiting[c1] # 0
        /\ callAge[c2] = 3600000 /\ FailsExpired(c2)

\* C3: a call that finds the token Expired fails with the Expired error in
\* that very step, which starts no refresh and leaves the in-flight marker,
\* the refresh operations and the token state as they were.
C3_ExpiredNoRefresh ==
    [][ \A c \in Calls :
          (pc[c] = "idle" /\ pc'[c] # "idle" /\ cursorAccessToken # 0
             /\ now - lastTokenRefresh >= 3600000)
          => /\ pc'[c] = "failed" /\ err'[c] = ErrExpired /\ awaiting'[c] = 0
             /\ refreshPromise' = refreshPromise
             /\ refreshOps' = refreshOps
             /\ cursorAccessToken' = cursorAccessToken
             /\ lastTokenRefresh' = lastTokenRefresh ]_vars

\* A call failed Expired, exactly at the expiry age, on a handler with a
\* refresh token while another caller's refresh was in flight.
C3_Witness ==
    \E c \in Calls :
        /\ FailsExpired(c) /\ callAge[c] = 3600000
        /\ cursorRefreshToken /\ refreshPromise # 0

\* C4: the in-flight marker never names a completed refresh: it is empty
\* whenever every refresh has completed, whatever the outcomes; and a caller
\* that finds the token RefreshDue never receives the outcome of a refresh
\* that had completed before it called.
C4_MarkerCleared ==
    /\ refreshPromise = 0 <=> Unsettled = {}
    /\ refreshPromise # 0 => Unsettled = {refreshPromise}
    /\ \A c \in Calls : awaiting[c] # 0 => awaiting[c] > callEpoch[c]

\* A refresh failed and a later call started a second one.
C4_Witness ==
    /\ Len(refreshOps) >= 2
    /\ refreshOps[1].state = "settled" /\ refreshOps[1].result.thrown
    /\ \E c \in Calls : awaiting[c] = 2 /\ callEpoch[c] = 1

\* C5: on a handler without an access token every createMessage call fails
\* with the sign-in error at once: it computes no token age, starts or joins
\* no refresh, issues no streaming request and yields no event; and no other
\* handler produces that error.
C5_NotSignedIn ==
    /\ cursorAccessToken = 0 =>
          /\ refreshOps = <<>> /\ refreshPromise = 0 /\ requests = <<>>
          /\ \A c \in Calls : pc[c] # "idle" =>
                /\ pc[c] = "failed" /\ err[c] = ErrNotSignedIn
                /\ callAge[c] = -1 /\ awaiting[c] = 0
                /\ events[c] = <<>> /\ reader[c] = "none"
    /\ \A c \in Calls : err[c] = ErrNotSignedIn => cursorAccessToken = 0

\* A call failed with the sign-in error although the token, had it been
\* looked at, was due for a refresh and a refresh token was at hand.
C5_Witness ==
    \E c \in Calls :
        /\ pc[c] = "failed" /\ err[c] = ErrNotSignedIn
        /\ RefreshDue(now - lastTokenRefresh) /\ cursorRefreshToken

\* C6: a call whose token check failed ends with exactly the error the check
\* produced (Expired, or the refresh's own error), has issued no streaming
\* request and has yielded no event.
C6_Propagates ==
    \A c \in Calls :
        /\ (pc[c] = "failed" /\ Checked(c)) =>
              /\ Expired(callAge[c]) => err[c] = ErrExpired
              /\ awaiting[c] # 0 => /\ refreshOps[awaiting[c]].state = "settled"
                                    /\ err[c] = refreshOps[awaiting[c]].result
              /\ err[c].thrown
              /\ \A i \in 1..Len(requests) : requests[i][1] # c
              /\ events[c] = <<>> /\ reader[c] = "none"
        /\ (awaiting[c] # 0 /\ refreshOps[awaiting[c]].state = "settled"
               /\ refreshOps[awaiting[c]].result.thrown)
            => \A i \in 1..Len(requests) : requests[i][1] # c

\* A call that joined another caller's refresh failed Unauthorized.
C6_Witness ==
    \E c \in Calls :
        /\ pc[c] = "failed" /\ err[c] = ErrUnauthorized
        /\ awaiting[c] # 0 /\ refreshOps[awaiting[c]].by # c

\* C13: the body of every streaming request is one Data envelope (flag 0,
\* big-endian length, the JSON text of the request object) followed by the
\* five bytes of an empty EndStream envelope, and nothing else.
C13_RequestShape ==
    \A i \in 1..Len(requests) :
        LET body == requests[i][3]
            json == RequestJson(requests[i][1])
            n == Len(json)
        IN /\ Len(body) = 5 + n + 5
           /\ SubSeq(body, 1, 5) = <<0, 0, 0, 0, n>>
           /\ SubSeq(body, 6, 5 + n) = json
           /\ SubSeq(body, 6 + n, 10 + n) = <<2, 0, 0, 0, 0>>

\* Two calls have sent their requests, with the queries "1" and "2".
C13_Witness ==
    /\ Len(requests) = 2
    /\ { requests[i][3][16] : i \in 1..2 } = {49, 50}

\* the two messages that tell the caller to sign in again after a refresh
MsgUnauthorized == [thrown |-> TRUE, pre |-> <<"Authentication failed. Please sign in again.">>, text |-> <<>>]
MsgForbiddenRefresh ==
    [thrown |-> TRUE, pre |-> <<"Refresh token is invalid or expired. Please sign in again.">>,
     text |-> <<>>]
\* the calls that came back from the refresh promise `id` with a failure
FailedOn(id) == { c \in Calls : awaiting[c] = id /\ pc[c] = "failed" }

\* C21: a refresh answered 401 ends with the Unauthorized message and one
\* answered 403 with the ForbiddenRefresh message, for the operation and for
\* every caller that awaited it; a refresh answered with another status, or
\* whose request failed in transport, ends with an error that is neither of
\* the two, and no refresh with another answer ends with either of them.
C21_StatusMapping ==
    \A i \in 1..Len(refreshOps) : refreshOps[i].state = "settled" =>
        /\ refreshOps[i].resp = "401" <=> refreshOps[i].result = MsgUnauthorized
        /\ refreshOps[i].resp = "403" <=> refreshOps[i].result = MsgForbiddenRefresh
        /\ refreshOps[i].resp \in {"500", "network"} =>
              /\ refreshOps[i].result.thrown
              /\ refreshOps[i].result \notin {MsgUnauthorized, MsgForbiddenRefresh}
        /\ \A c \in FailedOn(i) :
              /\ refreshOps[i].resp = "401" <=> err[c] = MsgUnauthorized
              /\ refreshOps[i].resp = "403" <=> err[c] = MsgForbiddenRefresh

\* One refresh was answered 403 and the next one 500; the caller of each
\* failed with the message of its status.
C21_Witness ==
    \E c1, c2 \in Calls :
        /\ Len(refreshOps) = 2
        /\ refreshOps[1].resp = "403" /\ awaiting[c1] = 1 /\ err[c1] = MsgForbiddenRefresh
        /\ refreshOps[2].resp = "500" /\ awaiting[c2] = 2 /\ pc[c2] = "failed"
        /\ err[c2] \notin {MsgUnauthorized, MsgForbiddenRefresh}

\* the invocations of the persistence callback made for the refresh `id`,
\* whose access token is the (id + 1)-th
PersistedFor(id) == { k \in 1..Len(persisted) : persisted[k][1] = id + 1 }

\* C22: the access token and lastTokenRefresh change in the same step and
\* only together, the new lastTokenRefresh being the time of that step; on a
\* handler with a persistence callback that step invokes the callback once,
\* with the new access token and the stored refresh token, while the refresh
\* is still pending, and no other step invokes it; a caller that comes back
\* from a refresh with success finds exactly one invocation made for it.
C22_AtomicSuccess ==
    [][ /\ (cursorAccessToken' # cursorAccessToken) <=> (lastTokenRefresh' # lastTokenRefresh)
        /\ cursorAccessToken' # cursorAccessToken =>
              /\ lastTokenRefresh' = now /\ now' = now
              /\ onTokensRefreshed =>
                    /\ persisted' = Append(persisted, <<cursorAccessToken', cursorRefreshToken>>)
                    /\ refreshPromise' = refreshPromise
                    /\ refreshOps'[refreshPromise].state # "settled"
              /\ ~onTokensRefreshed => persisted' = persisted
        /\ cursorAccessToken' = cursorAccessToken => persisted' = persisted
        /\ \A c \in Calls :
              (pc[c] = "awaitToken" /\ pc'[c] = "awaitResponse" /\ awaiting[c] # 0
                 /\ onTokensRefreshed)
              => Cardinality(PersistedFor(awaiting[c])) = 1 ]_vars

\* Two callers shared a successful refresh on a handler with a callback and
\* both went on to their requests with the new token; the callback ran once.
C22_Witness ==
    /\ onTokensRefreshed /\ Len(persisted) = 1 /\ persisted[1] = <<2, TRUE>>
    /\ cursorAccessToken = 2 /\ lastTokenRefresh = 3300000
    /\ \A c \in {1, 2} : awaiting[c] = 1 /\ pc[c] = "awaitResponse"
    /\ \A i \in 1..Len(requests) : requests[i][2] = 2

UnsettledIn(ops) == { i \in 1..Len(ops) : ops[i].state # "settled" }

\* C24: after every step at most one refresh call is outstanding; a call
\* that makes its token check while the token is RefreshDue and a refresh is
\* pending awaits that very refresh, and its check starts no refresh; and a
\* call comes back from the refresh it awaited only once that one has
\* settled, failing with its error or going on if it succeeded.
C24_JoinsInFlight ==
    [][ /\ Cardinality(UnsettledIn(refreshOps')) <= 1
        /\ \A c \in Calls :
              /\ (/\ pc[c] = "idle" /\ pc'[c] # "idle" /\ cursorAccessToken # 0
                  /\ 3300000 <= now - lastTokenRefresh /\ now - lastTokenRefresh < 3600000
                  /\ refreshPromise # 0)
                 => /\ pc'[c] = "awaitToken" /\ awaiting'[c] = refreshPromise
                    /\ refreshOps' = refreshOps /\ refreshPromise' = refreshPromise
              /\ (pc[c] = "awaitToken" /\ pc'[c] # "awaitToken" /\ awaiting[c] # 0)
                 => /\ refreshOps[awaiting[c]].state = "settled"
                    /\ IF refreshOps[awaiting[c]].result.thrown
                       THEN pc'[c] = "failed" /\ err'[c] = refreshOps[awaiting[c]].result
                       ELSE pc'[c] = "awaitResponse" /\ err'[c] = err[c] ]_vars

\* A call that arrived later than the one that started the refresh joined
\* it and went on to its request when the refresh succeeded.
C24_Witness ==
    \E c1, c2 \in Calls :
        /\ Len(refreshOps) = 1 /\ refreshOps[1].by = c1 /\ c2 # c1
        /\ awaiting[c1] = 1 /\ awaiting[c2] = 1
        /\ callAge[c1] = 3300000 /\ callAge[c2] = 3599999
        /\ pc[c2] = "awaitResponse"

\* the refreshes that have ended in success
Succeeded == { i \in 1..Len(refreshOps) :
                 refreshOps[i].state = "settled" /\ ~refreshOps[i].result.thrown }
LastOf(S) == CHOOSE i \in S : \A j \in S : j <= i

\* C25 as stated: the token state is what the last successful refresh left
\* (or the constructor, when none succeeded): whenever no refresh is pending,
\* the access token is the one the last successful refresh obtained and,
\* when none has succeeded, lastTokenRefresh is still the construction time;
\* so a refresh that ended in failure has changed neither of them.  And a
\* step that is no answer to a refresh request changes neither of them.
C25_AsStated ==
    /\ [](refreshPromise = 0 =>
            /\ Succeeded = {} => cursorAccessToken \in {0, 1} /\ lastTokenRefresh = 0
            /\ Succeeded # {} => cursorAccessToken = LastOf(Succeeded) + 1)
    /\ [][ (refreshPromise = 0 \/ refreshOps[refreshPromise].state # "fetch")
             => /\ cursorAccessToken' = cursorAccessToken
                /\ lastTokenRefresh' = lastTokenRefresh ]_vars

\* C26: the clock never goes back, and in every step lastTokenRefresh stays
\* or grows; it never lies ahead of the clock.
C26_IssuedAtMonotonic ==
    [][ /\ now' >= now
        /\ lastTokenRefresh' >= lastTokenRefresh
        /\ lastTokenRefresh' <= now' ]_vars

\* Two refreshes have succeeded one after the other, the second later than
\* the first.
C26_Witness ==
    /\ Len(refreshOps) = 2 /\ Succeeded = {1, 2}
    /\ cursorAccessToken = 3 /\ lastTokenRefresh > 3599999

RequestsOf(reqs, c) == { i \in 1..Len(reqs) : reqs[i][1] = c }

\* C32: a call that finds the token RefreshDue on a handler without a
\* refresh token fails in that very step with the error of line 45; the step
\* creates no refresh operation, leaves the in-flight marker empty and the
\* access token and lastTokenRefresh as they were, and sends nothing; as
\* nothing has changed, every later call that finds the token RefreshDue
\* fails the same way, and such a handler never has a refresh operation.
C32_NoRefreshToken ==
    [][ \A c \in Calls :
          (pc[c] = "idle" /\ pc'[c] # "idle" /\ cursorAccessToken # 0
             /\ RefreshDue(now - lastTokenRefresh) /\ ~cursorRefreshToken)
          => /\ pc'[c] = "failed" /\ err'[c] = ErrNoRefreshToken /\ awaiting'[c] = 0
             /\ refreshPromise = 0 /\ refreshPromise' = 0
             /\ refreshOps = <<>> /\ refreshOps' = <<>>
             /\ cursorAccessToken' = cursorAccessToken
             /\ lastTokenRefresh' = lastTokenRefresh
             /\ ~cursorRefreshToken'
             /\ persisted' = persisted /\ requests' = requests ]_vars

\* Two calls, made at different times while the token was RefreshDue on a
\* handler without a refresh token, both failed with the error of line 45;
\* no refresh was ever started.
C32_Witness ==
    /\ ~cursorRefreshToken /\ refreshOps = <<>> /\ refreshPromise = 0
    /\ cursorAccessToken = 1 /\ lastTokenRefresh = 0
    /\ \A c \in {1, 2} :
          pc[c] = "failed" /\ err[c] = ErrNoRefreshToken /\ RefreshDue(callAge[c])
    /\ callAge[1] # callAge[2]

\* C33: a call that awaits a refresh (its own or one it joined) issues its
\* streaming request only in a step that starts from a state in which that
\* refresh has completed with success: the provider answered with a token,
\* the persistence callback (if any) was invoked for it and has finished,
\* and the promise is settled without error.  The bearer token of the
\* request is the access token the handler holds in that step, which is the
\* token of that refresh or of a later one, never an earlier token.
C33_RequestAfterRefresh ==
    [][ \A c \in Calls :
          (awaiting[c] # 0 /\ RequestsOf(requests', c) # RequestsOf(requests, c))
          => /\ pc[c] = "awaitToken"
             /\ refreshOps[awaiting[c]].state = "settled"
             /\ refreshOps[awaiting[c]].resp = "token"
             /\ refreshOps[awaiting[c]].result = NoError
             /\ onTokensRefreshed => PersistedFor(awaiting[c]) # {}
             /\ Len(requests') = Len(requests) + 1
             /\ requests'[Len(requests')][1] = c
             /\ requests'[Len(requests')][2] = cursorAccessToken
             /\ cursorAccessToken' = cursorAccessToken
             /\ cursorAccessToken > awaiting[c] ]_vars

\* A call that joined another caller's refresh has sent its request with
\* the token of that refresh, while the caller that started the refresh has
\* not yet resumed.
C33_Witness ==
    \E c \in Calls : \E c2 \in Calls :
        /\ awaiting[c] # 0 /\ awaiting[c2] = awaiting[c]
        /\ refreshOps[awaiting[c]].by = c2 /\ c2 # c
        /\ pc[c] = "awaitResponse" /\ pc[c2] = "awaitToken"
        /\ Len(requests) = 1 /\ requests[1][1] = c
        /\ requests[1][2] = awaiting[c] + 1

(* ------------------------------------------------------------------ *)
(* Properties of the receive loop (checked under SpecStream)           *)
(* ------------------------------------------------------------------ *)
EnvFlag(e) == e[1]
EnvPayload(e) == SubSeq(e, 6, Len(e))
LastEnvelope(c) == envelopes[c][Len(envelopes[c])]
WrappedMessage(text) ==
    [thrown |-> TRUE, pre |-> <<"Error processing message: Error: ">>, text |-> text]

\* C7 as stated: a byte stream that ends before any EndStream or Error frame
\* was processed makes the call fail (with UnexpectedEof); it never completes.
C7_AsStated ==
    \A c \in Calls : pendingAtEnd[c] # "open" => pc[c] = "failed" /\ err[c].thrown

\* C8 as stated: a Data frame with a non-empty payload that holds no string
\* `text` is the last envelope the call processes, and the call fails.
C8_AsStated ==
    \A c \in Calls : \A i \in 1..Len(envelopes[c]) :
        (/\ EnvFlag(envelopes[c][i]) = 0
         /\ EnvPayload(envelopes[c][i]) # <<>>
         /\ EnvPayload(envelopes[c][i]) \notin {TxtTextA, TxtTextB})
        => i = Len(envelopes[c]) /\ pc[c] = "failed"

\* C9: an EndStream envelope is the last one the call processes; the call
\* completes iff its payload is empty or decodes to "{}", and otherwise fails
\* with an error that carries the decoded message.
C9_EndStream ==
    \A c \in Calls : \A i \in 1..Len(envelopes[c]) :
        EnvFlag(envelopes[c][i]) = 2 =>
            LET payload == EnvPayload(envelopes[c][i])
                decoded == parseErrorMessage(payload)
            IN /\ i = Len(envelopes[c])
               /\ pc[c] \in {"done", "failed"}
               /\ pc[c] = "done" <=> (payload = <<>> \/ decoded = <<123, 125>>)
               /\ pc[c] = "done" => sawEndMarker[c] /\ ~err[c].thrown
               /\ pc[c] = "failed" => err[c].thrown /\ err[c].text = decoded

\* A call completed on an EndStream envelope whose payload is "{}", after it
\* had yielded an event.
C9_Witness ==
    \E c \in Calls :
        /\ pc[c] = "done" /\ Len(envelopes[c]) = 2 /\ Len(events[c]) = 1
        /\ EnvFlag(LastEnvelope(c)) = 2 /\ EnvPayload(LastEnvelope(c)) = TxtEmptyObj

\* C10 as stated: an Error envelope is the last one the call processes and
\* the call fails with an error whose message is the decoded payload.
C10_AsStated ==
    \A c \in Calls : \A i \in 1..Len(envelopes[c]) :
        EnvFlag(envelopes[c][i]) = 4 =>
            /\ i = Len(envelopes[c])
            /\ pc[c] = "failed"
            /\ err[c] = ErrMsg(parseErrorMessage(EnvPayload(envelopes[c][i])))

\* C10 amended: ... the call fails with an error whose message is
\* "Error processing message: Error: " followed by the decoded payload.
C10_ErrorFrame ==
    \A c \in Calls : \A i \in 1..Len(envelopes[c]) :
        EnvFlag(envelopes[c][i]) = 4 =>
            /\ i = Len(envelopes[c])
            /\ pc[c] = "failed"
            /\ err[c] = WrappedMessage(parseErrorMessage(EnvPayload(envelopes[c][i])))

\* A call failed on an Error envelope carrying {"error":{"message":"bad"}},
\* with the bytes that followed the envelope left unprocessed.
C10_Witness ==
    \E c \in Calls :
        /\ pc[c] = "failed" /\ Len(envelopes[c]) > 0
        /\ EnvFlag(LastEnvelope(c)) = 4
        /\ err[c].text = StrBad
        /\ leftover[c]

\* The text a Data payload of the model carries: {"text":"a"} or {"text":"b"}
TextIn(payload) == IF payload = <<123, 34, 116, 101, 120, 116, 34, 58, 34, 97, 34, 125>>
                   THEN <<97>> ELSE <<98>>
IsTextFrame(f) ==
    /\ f[1] = 0
    /\ f[2] \in { <<123, 34, 116, 101, 120, 116, 34, 58, 34, 97, 34, 125>>,
                  <<123, 34, 116, 101, 120, 116, 34, 58, 34, 98, 34, 125>> }
\* k >= 0 Data frames with a string text, then one empty EndStream frame
IsHappy(fs) ==
    /\ Len(fs) >= 1
    /\ fs[Len(fs)] = <<2, <<>>>>
    /\ \A i \in 1..(Len(fs) - 1) : IsTextFrame(fs[i])
HappyTexts(fs) == [i \in 1..(Len(fs) - 1) |-> TextIn(fs[i][2])]
IsPrefix(s, t) == Len(s) <= Len(t) /\ s = SubSeq(t, 1, Len(s))
\* the response was delivered: the peer did not close early, no read failed
Delivered(c) == pendingAtEnd[c] = "open" /\ err[c] # ErrReadFailed

\* C11: when the response is k Data frames with a string text followed by an
\* empty EndStream frame, then however the bytes are chunked the call never
\* fails, the events it has yielded are always the first texts of the frames
\* in frame order, it does not wait for bytes once all were delivered, and
\* when it completes it has yielded exactly the k texts.
C11_HappyPath ==
    \A c \in Calls :
        (response[c].kind = "stream" /\ IsHappy(response[c].frames) /\ Delivered(c)) =>
            /\ pc[c] # "failed" /\ ~err[c].thrown
            /\ IsPrefix(events[c], HappyTexts(response[c].frames))
            /\ pc[c] = "reading" => buffer[c] \o wire[c] # <<>>
            /\ pc[c] = "done" => events[c] = HappyTexts(response[c].frames)

\* A call completed after yielding "b" then "a" for the response
\* Data {"text":"b"}, Data {"text":"a"}, EndStream.
C11_Witness ==
    \E c \in Calls :
        /\ pc[c] = "done" /\ Delivered(c)
        /\ Len(response[c].frames) = 3 /\ IsHappy(response[c].frames)
        /\ events[c] = << <<98>>, <<97>> >>

\* the envelope of a Data frame without payload
EmptyData == <<0, 0, 0, 0, 0>>
IsTextEnvelope(e) == IsTextFrame(<<EnvFlag(e), EnvPayload(e)>>)
TextEnvelopes(c) == { i \in 1..Len(envelopes[c]) : IsTextEnvelope(envelopes[c][i]) }
\* the buffer holds a whole envelope (payloads of the model are shorter than 256 bytes)
HoldsEnvelope(buf) == Len(buf) >= 5 /\ Len(buf) >= 5 + buf[5]

\* C12: an empty Data frame yields no event (the events are as many as the
\* text frames processed), it does not make the call fail, and after it the
\* call does not wait for a read while a whole envelope is in its buffer.
C12_EmptyDataSkipped ==
    \A c \in Calls :
        /\ Len(events[c]) = Cardinality(TextEnvelopes(c))
        /\ (Len(envelopes[c]) > 0 /\ LastEnvelope(c) = EmptyData) =>
              /\ pc[c] \in {"reading", "done", "failed"}
              /\ pc[c] = "failed" => err[c] = ErrReadFailed
              /\ pc[c] = "done" => ~Delivered(c)
              /\ pc[c] = "reading" => ~HoldsEnvelope(buffer[c])

\* An empty Data frame was skipped and the text frame after it was yielded.
C12_Witness ==
    \E c \in Calls :
        /\ pc[c] = "yielded" /\ Len(envelopes[c]) = 2
        /\ envelopes[c][1] = EmptyData /\ IsTextEnvelope(envelopes[c][2])
        /\ events[c] = << <<97>> >>

\* "E1: bad"
StrE1Bad == <<69, 49, 58, 32, 98, 97, 100>>
ErrorEnvelopes(c, payload) ==
    { i \in 1..Len(envelopes[c]) :
        EnvFlag(envelopes[c][i]) = 4 /\ EnvPayload(envelopes[c][i]) = payload }

\* C14 as stated: {"error":{"code":"E1","message":"bad"}} decodes to "E1: bad"
\* and {"error":{"message":"bad"}} decodes to "bad", in an Error frame as in
\* the body of a non-2xx response.
C14_AsStated ==
    \A c \in Calls :
        /\ ErrorEnvelopes(c, TxtErrCodeMsg) # {} => err[c].text = StrE1Bad
        /\ ErrorEnvelopes(c, TxtErrMsg) # {} => err[c].text = StrBad
        /\ (response[c].kind = "error" /\ response[c].text = TxtErrCodeMsg)
              => err[c].text = StrE1Bad
        /\ (response[c].kind = "error" /\ response[c].text = TxtErrMsg)
              => err[c].text = StrBad

\* the bodies of the model that hold a non-empty error.message
HasErrorMessage(text) == text \in {TxtErrMsg, TxtErrCodeMsg}

\* C15 as stated: a non-2xx response makes the call fail without an event;
\* the message is error.message if the body holds one and the raw response
\* text otherwise.
C15_AsStated ==
    \A c \in Calls : response[c].kind = "error" =>
        /\ pc[c] = "failed" /\ events[c] = <<>>
        /\ err[c] = IF HasErrorMessage(response[c].text)
                     THEN [thrown |-> TRUE, pre |-> <<>>, text |-> StrBad]
                     ELSE [thrown |-> TRUE, pre |-> <<>>, text |-> response[c].text]

\* C15 amended: ... the message is error.message if the body holds a
\* non-empty one, and "Server returned status code <status>" otherwise.
C15_ErrorResponse ==
    \A c \in Calls : response[c].kind = "error" =>
        /\ pc[c] = "failed" /\ events[c] = <<>> /\ reader[c] = "none"
        /\ err[c] = IF HasErrorMessage(response[c].text)
                     THEN [thrown |-> TRUE, pre |-> <<>>, text |-> StrBad]
                     ELSE [thrown |-> TRUE, pre |-> <<"Server returned status code 500">>,
                           text |-> <<>>]

\* A call failed on a non-2xx response whose body is not JSON, with the
\* status message.
C15_Witness ==
    \E c \in Calls :
        /\ response[c].kind = "error" /\ response[c].text = TxtGarbage
        /\ pc[c] = "failed" /\ err[c].pre = <<"Server returned status code 500">>

\* C16: a call holds the reader only while it awaits a read or is suspended
\* at a yield; once a call that acquired the reader has ended (completed,
\* failed, or stopped by its consumer) the reader is released.
C16_ReaderReleased ==
    \A c \in Calls :
        /\ reader[c] = "locked" => pc[c] \in {"reading", "yielded"}
        /\ (response[c].kind = "stream" /\ pc[c] \in {"done", "failed", "returned"})
              => reader[c] = "released"

\* The consumer stopped a call that was suspended at a yield with bytes
\* still unprocessed, and the reader is released.
C16_Witness ==
    \E c \in Calls :
        pc[c] = "returned" /\ leftover[c] /\ reader[c] = "released"

\* the texts of the text envelopes among envs, in order
RECURSIVE TextsOf(_)
TextsOf(envs) ==
    IF envs = <<>> THEN <<>>
    ELSE IF IsTextEnvelope(Head(envs))
         THEN <<TextIn(EnvPayload(Head(envs)))>> \o TextsOf(Tail(envs))
         ELSE TextsOf(Tail(envs))

\* C17: in every step the events of a call only grow by appending; a step in
\* which the call fails adds and removes no event, and at the failure the
\* events are exactly the texts of the text frames processed before it.
C17_NoRetraction ==
    [][\A c \in Calls :
          /\ IsPrefix(events[c], events'[c])
          /\ (pc[c] # "failed" /\ pc'[c] = "failed") =>
                /\ events'[c] = events[c]
                /\ events'[c] = TextsOf(envelopes'[c])]_vars

\* A call failed on an Error frame after it had yielded one event.
C17_Witness ==
    \E c \in Calls :
        /\ pc[c] = "failed" /\ events[c] = << <<98>> >>
        /\ Len(envelopes[c]) = 2 /\ EnvFlag(LastEnvelope(c)) = 4

\* the bytes of a frame <<flag, payload>> on the wire (payloads of the model
\* are shorter than 256 bytes)
WireFrame(f) == <<f[1], 0, 0, 0, Len(f[2])>> \o f[2]
RECURSIVE Flatten(_)
Flatten(seqs) == IF seqs = <<>> THEN <<>> ELSE Head(seqs) \o Flatten(Tail(seqs))
SentEnvelopes(c) == [i \in 1..Len(response[c].frames) |-> WireFrame(response[c].frames[i])]

Received(c) ==
    SubSeq(Flatten(SentEnvelopes(c)), 1, Len(Flatten(SentEnvelopes(c))) - Len(wire[c]))

\* C27: whenever the loop is back at its read, the bytes received so far are
\* the extracted envelopes, each a whole frame, followed by the buffer: the
\* buffer is the unconsumed tail, it holds no byte of an extracted envelope
\* and no byte is in two envelopes; and the buffer holds no whole frame: it
\* is shorter than 5 bytes, or shorter than 5 plus the length its header
\* declares.
C27_PendingBuffer ==
    \A c \in Calls : (response[c].kind = "stream" /\ pc[c] = "reading") =>
        /\ Flatten(envelopes[c]) \o buffer[c] = Received(c)
        /\ \A i \in 1..Len(envelopes[c]) :
              /\ Len(envelopes[c][i]) >= 5
              /\ SubSeq(envelopes[c][i], 2, 4) = <<0, 0, 0>>
              /\ Len(envelopes[c][i]) = 5 + envelopes[c][i][5]
        /\ \/ Len(buffer[c]) < 5
           \/ /\ SubSeq(buffer[c], 2, 4) = <<0, 0, 0>>
              /\ Len(buffer[c]) < 5 + buffer[c][5]

\* After a chunk that ended inside the payload of the second frame: one
\* envelope is extracted, the buffer holds the second header and part of its
\* payload, and more bytes are to come.
C27_Witness ==
    \E c \in Calls :
        /\ pc[c] = "reading" /\ Len(envelopes[c]) = 1
        /\ Len(buffer[c]) > 5 /\ wire[c] # <<>>

\* the call has processed an EndStream or an Error envelope
Terminated(c) ==
    /\ Len(envelopes[c]) > 0
    /\ EnvFlag(LastEnvelope(c)) \in {END_STREAM, ERROR}

\* the frames the server sent after the first EndStream or Error frame
RECURSIVE AfterTerminator(_)
AfterTerminator(fs) ==
    IF fs = <<>> THEN <<>>
    ELSE IF Head(fs)[1] \in {END_STREAM, ERROR} THEN Tail(fs)
    ELSE AfterTerminator(Tail(fs))

\* C31: once a call has processed an EndStream or an Error envelope it is
\* over for good: it has completed or failed, its reader is released, the
\* bytes it had buffered and the bytes still to come are dropped, and no
\* later step yields an event, extracts an envelope, reads from the stream
\* or changes how the call ended, whatever frames the server sent after the
\* terminator.
C31_Terminal ==
    [][\A c \in Calls : Terminated(c) =>
          /\ pc[c] \in {"done", "failed"}
          /\ reader[c] = "released"
          /\ buffer[c] = <<>> /\ wire[c] = <<>>
          /\ events'[c] = events[c] /\ envelopes'[c] = envelopes[c]
          /\ pc'[c] = pc[c] /\ reader'[c] = reader[c]
          /\ buffer'[c] = <<>> /\ wire'[c] = <<>>]_vars

\* A call completed on an empty EndStream frame that a whole Data frame with
\* a text followed: the Data frame was dropped with the rest of the bytes,
\* no event was yielded for it.
C31_Witness ==
    \E c \in Calls :
        /\ pc[c] = "done" /\ Terminated(c) /\ leftover[c]
        /\ Len(envelopes[c]) = 1 /\ events[c] = <<>>
        /\ AfterTerminator(response[c].frames) = << <<NORMAL, TxtTextA>> >>

(* ------------------------------------------------------------------ *)
(* Properties of the codec (checked under SpecCodec)                   *)
(* ------------------------------------------------------------------ *)
\* C19: for each flag and payload the encoded bytes are the flag, the payload
\* length big-endian in bytes 1..4 and the payload, 5 + length bytes in all;
\* decoding them gives back exactly the flag and the payload.
C19_RoundTrip ==
    /\ codec.op \in {"encoded", "decoded"} =>
          /\ Len(codec.bytes) = 5 + Len(codec.payload)
          /\ codec.bytes[1] = codec.flag
          /\ SubSeq(codec.bytes, 2, 5) =
                <<0, 0, Len(codec.payload) \div 256, Len(codec.payload) % 256>>
          /\ SubSeq(codec.bytes, 6, Len(codec.bytes)) = codec.payload
    /\ codec.op = "encoded" => ~codec.out.error.thrown
    /\ codec.op = "decoded" =>
          codec.out = [flag |-> codec.flag, data |-> codec.payload,
                       error |-> [thrown |-> FALSE, pre |-> <<>>, text |-> <<>>]]

\* An Error frame with a payload of 256 bytes went through encode and decode.
C19_Witness ==
    /\ codec.op = "decoded" /\ codec.flag = 4
    /\ Len(codec.payload) = 256 /\ codec.out.data = codec.payload

\* C20 as stated: some length a header can declare is above the cap; so a
\* buffer that holds a header declaring the largest length, 2^32 - 1, is
\* rejected as too large as soon as validateEnvelope sees it.
C20_AsStated ==
    (codec.op = "validated" /\ SubSeq(codec.bytes, 2, 5) = <<255, 255, 255, 255>>)
        => codec.out.error.thrown

\* C28 as stated: whatever the size of the payload, encodeEnvelope either
\* fails or returns a header whose bytes 1..4 are the payload length; and it
\* fails for every size that does not fit 32 bits (2^32 bytes and more).
C28_AsStated ==
    codec.op = "sized" =>
        /\ ~codec.out.error.thrown =>
              /\ Len(codec.bytes) = 5
              /\ codec.out.length.hi < 65536
              /\ codec.bytes[2] * 256 + codec.bytes[3] = codec.out.length.hi
              /\ codec.bytes[4] * 256 + codec.bytes[5] = codec.out.length.lo
        /\ codec.out.length.hi >= 65536 => codec.out.error.thrown

\* the buffer is as long as its header says: 5 bytes and the declared length
IsExact(b) ==
    /\ Len(b) >= 5
    /\ b[2] = 0 /\ b[3] = 0
    /\ Len(b) = 5 + b[4] * 256 + b[5]

\* C29: decodeEnvelope returns a frame iff the buffer is exactly 5 bytes
\* longer than the length its header declares, and then the flag is byte 0
\* and the payload the bytes from 5 to the end; a buffer without a whole
\* header, a shorter and a longer buffer all fail with a length error and
\* give no frame.
C29_ExactLength ==
    codec.op = "decodedBuffer" =>
        /\ IsExact(codec.bytes) =>
              /\ ~codec.out.error.thrown
              /\ codec.out.flag = codec.bytes[1]
              /\ codec.out.data = SubSeq(codec.bytes, 6, Len(codec.bytes))
        /\ ~IsExact(codec.bytes) =>
              /\ codec.out.data = <<>>
              /\ codec.out.error =
                    IF Len(codec.bytes) < 5
                    THEN [thrown |-> TRUE, pre |-> <<"Invalid data length: too short">>,
                          text |-> <<>>]
                    ELSE [thrown |-> TRUE,
                          pre |-> <<"Protocol error: promised bytes in enveloped message">>,
                          text |-> <<>>]

\* A buffer that holds an envelope of one payload byte and one byte more
\* was rejected.
C29_Witness ==
    /\ codec.op = "decodedBuffer" /\ Len(codec.bytes) = 7
    /\ SubSeq(codec.bytes, 2, 5) = <<0, 0, 0, 1>>
    /\ codec.out.error.thrown

\* What a call yields when it runs alone on the frames of its response: the
\* texts of the text frames up to the first EndStream or Error frame.
RECURSIVE AloneEvents(_)
AloneEvents(fs) ==
    IF fs = <<>> \/ Head(fs)[1] # 0 THEN <<>>
    ELSE IF IsTextFrame(Head(fs))
         THEN <<TextIn(Head(fs)[2])>> \o AloneEvents(Tail(fs))
         ELSE AloneEvents(Tail(fs))

\* C30: with several calls reading in any order, the envelopes a call has
\* extracted, its buffer and the bytes still to come are the bytes of its
\* own response and of no other; the events it has yielded are the first
\* ones it would yield alone on that response, and all of them once it has
\* ended with its response delivered.
C30_Isolation ==
    \A c \in Calls : response[c].kind = "stream" =>
        /\ IsPrefix(envelopes[c], SentEnvelopes(c))
        /\ pc[c] \in {"reading", "yielded"} =>
              Flatten(envelopes[c]) \o buffer[c] \o wire[c] = Flatten(SentEnvelopes(c))
        /\ IsPrefix(events[c], AloneEvents(response[c].frames))
        /\ (pc[c] \in {"done", "failed"} /\ Delivered(c)) =>
              /\ events[c] = AloneEvents(response[c].frames)
              /\ envelopes[c] = SentEnvelopes(c)

\* Both calls held part of their own response in their buffers at the same
\* time, and later each had yielded its own text.
C30_Witness ==
    /\ pc[1] = "yielded" /\ events[1] = << <<97>> >> /\ buffer[1] # <<>>
    /\ pc[2] = "yielded" /\ events[2] = << <<98>> >> /\ buffer[2] # <<>>

RefreshesBy(ops, c) == { i \in 1..Len(ops) : ops[i].by = c }
Ended(c) == pc[c] \in {"failed", "done", "returned"}

Drivers == {1}

InitStream == Init /\ cursorRefreshToken /\ onTokensRefreshed

NextStream ==
    \/ \E c \in Drivers : CreateMessage(c)
    \/ \E c \in Drivers : ResumeAfterValidate(c)
    \/ \E c \in Drivers : RequestFails(c)
    \/ \E c \in Drivers : ErrorResponse(c)
    \/ \E c \in Drivers : ResponseWithoutBody(c)
    \/ \E c \in Drivers : StreamResponse(c)
    \/ \E c \in Drivers : Read(c)
    \/ \E c \in Drivers : StreamEnds(c)
    \/ \E c \in Drivers : ReadFails(c)
    \/ \E c \in Drivers : Resume(c)
    \/ \E c \in Drivers : ConsumerReturn(c)

SpecStream == InitStream /\ [][NextStream]_vars

\* SpecPair: two createMessage calls under way together on a handler whose
\* token is fresh, each with a response of its own, their reads interleaved
\* in every order.
Pair == {1, 2}

InitPair == InitStream /\ cursorAccessToken = 1

NextPair ==
    \/ \E c \in Pair : CreateMessage(c)
    \/ \E c \in Pair : ResumeAfterValidate(c)
    \/ \E c \in Pair : StreamResponsePair(c)
    \/ \E c \in Pair : Read(c)
    \/ \E c \in Pair : Resume(c)
    \/ \E c \in Pair : StreamEnds(c)

SpecPair == InitPair /\ [][NextPair]_vars

\* SpecCodec: encodeEnvelope, decodeEnvelope and validateEnvelope applied to
\* flags, payloads and headers of the sets above.
NextCodec ==
    \/ \E flag \in Flags, payload \in Payloads : Encode(flag, payload)
    \/ Decode
    \/ \E bytes \in DecodeInputs : DecodeBuffer(bytes)
    \/ \E flag \in Flags, length \in SizedLengths : EncodeSized(flag, length)
    \/ \E flag \in Flags, declared \in DeclaredLengths, have \in 0..2 :
          Validate(flag, declared, have)

SpecCodec == Init /\ [][NextCodec]_vars

(* ------------------------------------------------------------------ *)
(* Properties of the summarizer (checked under SpecSummarizer)         *)
(* ------------------------------------------------------------------ *)
\* the estimate of the conversation handed to summarize is above maxTokens
InputTooBig == totalTokens(summarizer.input) > 4 * summarizer.maxTokens

\* C34 as stated: once summarize has been called on a conversation whose
\* estimate (a quarter of a token per character of text) is at most
\* maxTokens, it has returned the input messages as they were and no model
\* call has been made; a model call is made only for a conversation whose
\* estimate is above maxTokens.
C34_AsStated ==
    (summarizer.pc \in {"model", "returned", "failed"} /\ ~InputTooBig)
    => /\ summarizer.calls = 0
       /\ summarizer.pc = "returned"
       /\ summarizer.result = summarizer.input

\* SpecSummarizer: one ChatSummarizer is constructed and summarize is called
\* once on it, with conversations of up to MaxMessages messages.
NextSummarizer ==
    \/ \E maxTokens \in MaxTokensChoices : NewChatSummarizer(maxTokens)
    \/ \E messages \in Conversations : Summarize(messages)
    \/ \E summaryText \in SummaryTexts : ModelAnswers(summaryText)
    \/ ModelFails

SpecSummarizer == InitPair /\ [][NextSummarizer]_vars

====
